---- MODULE Spec2Model ----
(***************************************************************************)
(* State-machine model of the auto-trading engine                          *)
(* (src/stock-sentiment-strategy/src/trading/auto_strategy.py) and of the  *)
(* parts of the market-data service it calls                               *)
(* (src/stock-sentiment-strategy/src/data/tqsdk_service.py).               *)
(*                                                                         *)
(* Units.  Prices, ATR values and P&L points are integers in tenths of a   *)
(* point (2440.0 is 24400).  Multipliers and ratios are integers in        *)
(* hundredths (1.5 is 150).  The ATR values of the model are multiples of  *)
(* 2.0 points, so every product multiplier * ATR is a whole number of      *)
(* tenths and the integer arithmetic below is exact.  Wall-clock time is   *)
(* counted in units of MinutesPerUnit minutes since 00:00 of day 0;        *)
(* time.time() and datetime.now() both read that clock.                    *)
(***************************************************************************)
EXTENDS Integers, Sequences, FiniteSets, TLC

----------------------------------------------------------------------------
\* Program constants (auto_strategy.py, module level), in hundredths.
ATR_SL_MULTIPLIER == 150
ATR_TP_MULTIPLIER == 300
TRAIL_STEP_ATR == 50
TRAIL_MOVE_ATR == 25
MAX_RISK_PER_TRADE == 2
MAX_RISK_RATIO == 80
INTRADAY_SL_MULT == 120
INTRADAY_TP_MULT == 200
INTRADAY_TRAIL_STEP == 30
INTRADAY_TRAIL_MOVE == 15
INTRADAY_RISK_PER_TRADE == 1
INTRADAY_MAX_DAILY_LOSS == 3
INTRADAY_SIGNAL_THRESHOLD == 55
\* Program constants that are not ratios.
INTRADAY_MAX_CONSEC_LOSS == 3
INTRADAY_PAUSE_MINUTES == 30
INTRADAY_ADX_MIN == 15
INTRADAY_NO_ENTRY_HOURS == {3, 6, 13}
AI_BIAS_INTERVAL == 1800
\* TradeConfig defaults.
max_lots == 1
max_positions == 3
signal_threshold == 30
max_consecutive_losses == INTRADAY_MAX_CONSEC_LOSS
max_daily_loss == INTRADAY_MAX_DAILY_LOSS
max_risk_ratio == MAX_RISK_RATIO
close_before_market_close == TRUE

----------------------------------------------------------------------------
\* Bounds and input domains of the model.
\* Twelve clock units per hour.
MinutesPerUnit == 60 \div 12
UnitsPerDay == (24 * 60) \div MinutesPerUnit
\* How many clock units a behaviour may advance from its starting instant.
MaxElapsed == 1
\* How many closes a behaviour may record in the intraday risk state.
MaxExits == 1
\* The same bound for the behaviours that follow a losing streak.
MaxStreakExits == 3

Symbols == {"M2509"}
\* The contract list given to start(), in its order.
Contracts == <<"M2509">>

\* Quote prices (tenths of a point).
Prices == {24280, 24400, 24440, 24520, 24640}
\* ATR(14) values the service can report; 0 is "unavailable".
AtrValues == {0, 80}

\* Day 1, minute m of the day, as a clock value.
At(h, m) == UnitsPerDay + (h * 60 + m) \div MinutesPerUnit
\* Starting instants: before the day-session close, before midnight in the
\* night session, and before the night session opens.
StartTimes == {At(14, 55), At(23, 55), At(20, 55)}
\* The starting instants explored in each mode.
StartsOf(md) == IF md = "swing" THEN StartTimes ELSE {At(23, 55)}

\* Broker position legs that TqSdk can report for a symbol.
BrokerPos(lv, sv, la, sa) == [long_volume |-> lv, short_volume |-> sv, long_avg_price |-> la, short_avg_price |-> sa]
BrokerFlat == BrokerPos(0, 0, 0, 0)
BrokerStates == {BrokerFlat, BrokerPos(2, 0, 24400, 0), BrokerPos(0, 1, 0, 24400)}

----------------------------------------------------------------------------
VARIABLES
  mode,             \* config.strategy_mode: "swing" or "intraday"
  now,              \* the wall clock
  elapsed,          \* clock units advanced so far (bounded by MaxElapsed)
  svc_ready,        \* TqDataService.is_ready
  broker,           \* TqSdk position object of every symbol
  positions,        \* AutoTrader._positions: symbol -> PositionState
  daily_pnl,        \* AutoTrader._daily_pnl
  daily_loss_count, \* AutoTrader._daily_loss_count
  pause_until,      \* AutoTrader._pause_until
  last_trade_date,  \* AutoTrader._last_trade_date (day number, -1 is "")
  ai_bias,          \* AutoTrader._ai_bias: symbol -> bias
  ai_bias_updated,  \* AutoTrader._ai_bias_updated
  was_trading,      \* local of the trading loop
  pc,               \* where the scheduler thread is: loop, cycle, monitor, sleep
  todo,             \* contracts the running cycle has still to analyse
  gate_time,        \* clock value at which the running cycle passed its session gate (0 outside a cycle)
  n_exits,          \* closes recorded in the intraday risk state so far (bounded)
  pause_deadline,   \* the last value _record_intraday_pnl gave _pause_until (0: none yet)
  ev                \* what the last step did: orders, decisions, creations, removals

\* The engine as one scheduler thread runs it.
evars == <<mode, now, elapsed, svc_ready, broker, positions, daily_pnl, daily_loss_count, pause_until, last_trade_date, ai_bias, ai_bias_updated, was_trading, pc, todo, gate_time, n_exits, pause_deadline, ev>>

\* The threads of the auto-trader: start(), stop() and the trading loops.
VARIABLES
  running,          \* AutoTrader._running
  thread,           \* AutoTrader._thread: the id of a scheduler thread, 0 is None
  tpc,              \* where every scheduler thread is in _trading_loop ("unborn" before its Thread.start(), "ended" when _trading_loop has returned)
  cycle_lock,       \* AutoTrader._cycle_lock: 0 when free, else the id of the thread that holds it
  caller,           \* per thread that calls start() and stop(): where it is (idle, start_join, stop_join) and the thread it joins
  tev               \* what the last step of a scheduler thread did: an order, a tick skipped on the busy lock

tvars == <<running, thread, tpc, cycle_lock, caller, tev>>

\* The market-data service: start(), stop() and its worker threads.
VARIABLES
  svc_running,      \* TqDataService._running
  ready_event,      \* TqDataService._ready (threading.Event)
  api,              \* TqDataService._api: 0 is None, else the broker client the worker of that id created
  wpc,              \* where every worker thread is in _run_loop ("unborn" before its Thread.start(), "ended" after its finally block)
  scaller,          \* where the thread that calls start() and stop() is: idle, start_wait
  raised,           \* the workers whose wait_update has raised an exception
  sev               \* the call into a broker client the last step made: which call, by which thread (0 is the caller thread), on which client

svars == <<svc_running, ready_event, api, wpc, scaller, raised, sev>>

\* The symbol codec applied to one internal symbol.
VARIABLES
  our_symbol,       \* the internal symbol, a sequence of characters
  tq_symbol,        \* to_tq_symbol(our_symbol) once computed (<<>> is None)
  back_symbol,      \* from_tq_symbol(tq_symbol) once computed
  cpc               \* how far the round trip has got: input, encoded, decoded

cvars == <<our_symbol, tq_symbol, back_symbol, cpc>>

\* The order path of the market-data service: place_order in a caller
\* thread, _process_orders in the worker.
VARIABLES
  pending_orders,   \* TqDataService._pending_orders
  order_results,    \* TqDataService._order_results: order id -> result
  trade_log,        \* TqDataService._trade_log
  trade_log_file,   \* the trade log as last written by _save_trade_log
  opc,              \* where the caller is in place_order: idle, polling
  polls,            \* iterations the polling loop of place_order has left
  cur_oid,          \* the id of the request place_order waits for (0: none)
  next_oid,         \* the next fresh order id
  ret               \* the result the last place_order call returned

ovars == <<pending_orders, order_results, trade_log, trade_log_file, opc, polls, cur_oid, next_oid, ret>>

\* The persistence of the auto-trader: its lists, its files, and a fresh
\* instance that loads them.
VARIABLES
  trader_contracts, \* AutoTrader._contracts
  decisions,        \* AutoTrader._decisions
  auto_trade_log,   \* AutoTrader._trade_log
  config_file,      \* auto_config.json
  decisions_file,   \* auto_decisions.json
  positions_file,   \* auto_positions.json
  auto_trade_log_file, \* auto_trade_log.json
  fresh,            \* the fields of a fresh AutoTrader after its _load_state (loaded is FALSE before)
  n_records         \* the calls of _record so far (bounded by MaxRecords)

pvars == <<trader_contracts, decisions, auto_trade_log, config_file, decisions_file, positions_file, auto_trade_log_file, fresh, n_records>>

\* add_contract and remove_contract called from a request thread.
VARIABLES
  last_call         \* the last add_contract / remove_contract call: its argument, the symbol it became, whether it returned success

kvars == <<last_call>>

\* The exit check applied to a feed of prices.
VARIABLES
  fed,              \* the calls of _check_exit so far: price, long_vol, short_vol of each
  checked           \* the last call: the managed positions after its trailing update, the decision it returned

fvars == <<fed, checked>>

\* The money the closes of the day have realized.
VARIABLES
  realized_pnl      \* sum over the closes recorded since the last daily reset of pnl_points * lots * volume_multiple (tenths of a currency unit)

gvars == <<realized_pnl>>

\* The market as the exchange quotes it.
VARIABLES
  last_price        \* quote.last_price of every symbol (0 while the model does not follow the market)

wvars == <<last_price>>

\* The local signal of one symbol, computed from the last bars of its 5-min
\* klines.
VARIABLES
  indicators,       \* the indicator values _calc_intraday_signal reads at the last bar
  intraday_signal   \* what _calc_intraday_signal returned for them: (signal, strength)

ivars == <<indicators, intraday_signal>>

\* The size of one entry.
VARIABLES
  sizing            \* one call of _calc_dynamic_lots: config.max_lots, what the service answered, the ATR, and the lots returned (0 before the call)

zvars == <<sizing>>

\* What an observer of the engine and of the broker remembers.
VARIABLES
  held_stop,        \* per symbol, the stop-loss the engine last held for the position the broker has kept open since (0: none)
  counted,          \* per symbol, the closes recorded in the intraday P&L since the broker position of the symbol last changed
  requested         \* per symbol, the lots of the opening orders SUBMITTED since the broker last reported volume or the symbol was last unmanaged

hvars == <<held_stop, counted, requested>>

\* The position objects the market-data service holds.
VARIABLES
  position_channel  \* per symbol, TqDataService._positions: "none" (no key), "pending" (none yet, the key is queued in _pending_quotes), "held" (get_position has run)

qvars == <<position_channel>>

\* The engine but for the managed positions.
evarsButPositions == <<mode, now, elapsed, svc_ready, broker, daily_pnl, daily_loss_count, pause_until, last_trade_date, ai_bias, ai_bias_updated, was_trading, pc, todo, gate_time, n_exits, pause_deadline, ev>>

\* Everything outside the engine.
rest == <<tvars, svars, cvars, ovars, pvars, kvars, fvars, gvars, wvars, ivars, zvars, hvars, qvars>>
\* Everything outside the engine and the realized money.
restButRealized == <<tvars, svars, cvars, ovars, pvars, kvars, fvars, wvars, ivars, zvars, hvars, qvars>>
\* Everything outside the engine and the observer.
restButSeen == <<tvars, svars, cvars, ovars, pvars, kvars, fvars, gvars, wvars, ivars, zvars, qvars>>
\* Everything outside the engine and the position objects of the service.
restButChannels == <<tvars, svars, cvars, ovars, pvars, kvars, fvars, gvars, wvars, ivars, zvars, hvars>>
\* Everything outside the engine and the market.
restButMarket == <<tvars, svars, cvars, ovars, pvars, kvars, fvars, gvars, ivars, zvars, hvars, qvars>>
\* Everything outside the threads of the auto-trader, of the service,
\* outside the codec, outside the order path and outside the persistence.
asideThreads == <<evars, svars, cvars, ovars, pvars, kvars, fvars, gvars, wvars, ivars, zvars, hvars, qvars>>
asideService == <<evars, tvars, cvars, ovars, pvars, kvars, fvars, gvars, wvars, ivars, zvars, hvars, qvars>>
asideCodec == <<evars, tvars, svars, ovars, pvars, kvars, fvars, gvars, wvars, ivars, zvars, hvars, qvars>>
asideOrders == <<evars, tvars, svars, cvars, pvars, kvars, fvars, gvars, wvars, ivars, zvars, hvars, qvars>>
asidePersist == <<evarsButPositions, tvars, svars, cvars, ovars, kvars, fvars, gvars, wvars, ivars, zvars, hvars, qvars>>
\* Everything but the contract list, its file, the managed positions, the
\* AI bias map and the last call.
asideContracts == <<mode, now, elapsed, svc_ready, broker, daily_pnl, daily_loss_count, pause_until, last_trade_date, ai_bias_updated, was_trading, pc, todo, gate_time, n_exits, pause_deadline, ev,
                    tvars, svars, cvars, ovars,
                    decisions, auto_trade_log, decisions_file, positions_file, auto_trade_log_file, fresh, n_records, fvars, gvars, wvars, ivars, zvars, hvars, qvars>>
\* Everything but the managed positions and the feed.
asideFeed == <<evarsButPositions, tvars, svars, cvars, ovars, pvars, kvars, gvars, wvars, ivars, zvars, hvars, qvars>>

vars == <<evars, rest>>

----------------------------------------------------------------------------
\* Clock readings.
MinuteOfDay(t) == (t % UnitsPerDay) * MinutesPerUnit
HourOfDay(t) == MinuteOfDay(t) \div 60
DateOf(t) == t \div UnitsPerDay
SecondsBetween(t1, t2) == (t2 - t1) * MinutesPerUnit * 60

\* AutoTrader._is_trading_hours
IsTradingHours(t) ==
  LET m == MinuteOfDay(t) IN
    \/ (9 * 60 <= m /\ m < 11 * 60 + 30)
    \/ (13 * 60 + 30 <= m /\ m < 15 * 60)
    \/ m >= 21 * 60
    \/ m < 2 * 60 + 30

\* AutoTrader._is_near_market_close
IsNearMarketClose(t) ==
  LET m == MinuteOfDay(t) IN 14 * 60 + 55 <= m /\ m < 15 * 60

\* AutoTrader._get_effective_params: (sl_mult, tp_mult, trail_step, trail_move, risk_per_trade)
\* Faulty effective parameters: in intraday mode the stop moves as far as
\* the price at every step.
GetEffectiveParamsStepForStep(md) ==
  IF md = "intraday"
  THEN [sl_mult |-> INTRADAY_SL_MULT, tp_mult |-> INTRADAY_TP_MULT, trail_step |-> INTRADAY_TRAIL_STEP, trail_move |-> INTRADAY_TRAIL_STEP, risk_pct |-> INTRADAY_RISK_PER_TRADE]
  ELSE [sl_mult |-> ATR_SL_MULTIPLIER, tp_mult |-> ATR_TP_MULTIPLIER, trail_step |-> TRAIL_STEP_ATR, trail_move |-> TRAIL_MOVE_ATR, risk_pct |-> MAX_RISK_PER_TRADE]

GetEffectiveParams(md) ==
  IF md = "intraday"
  THEN [sl_mult |-> INTRADAY_SL_MULT, tp_mult |-> INTRADAY_TP_MULT, trail_step |-> INTRADAY_TRAIL_STEP, trail_move |-> INTRADAY_TRAIL_MOVE, risk_pct |-> INTRADAY_RISK_PER_TRADE]
  ELSE [sl_mult |-> ATR_SL_MULTIPLIER, tp_mult |-> ATR_TP_MULTIPLIER, trail_step |-> TRAIL_STEP_ATR, trail_move |-> TRAIL_MOVE_ATR, risk_pct |-> MAX_RISK_PER_TRADE]

----------------------------------------------------------------------------
\* The dict AutoTrader._positions.
NoPositions == [s \in {} |-> 0]
Has(pos, s) == s \in DOMAIN pos
Pop(pos, s) == [t \in (DOMAIN pos) \ {s} |-> pos[t]]
Put(pos, s, ps) == [t \in (DOMAIN pos) \cup {s} |-> IF t = s THEN ps ELSE pos[t]]

\* A faulty PositionState: the stop-loss and take-profit multipliers swapped.
NewPositionStateSwapped(md, action, lots, entry_price, atr, t) ==
  LET p == GetEffectiveParams(md) IN
    [direction |-> IF action = "BUY" THEN "LONG" ELSE "SHORT", entry_price |-> entry_price, atr |-> atr,
     stop_loss |-> IF action = "BUY" THEN entry_price - (p.tp_mult * atr) \div 100 ELSE entry_price + (p.tp_mult * atr) \div 100,
     take_profit |-> IF action = "BUY" THEN entry_price + (p.sl_mult * atr) \div 100 ELSE entry_price - (p.sl_mult * atr) \div 100,
     highest_since_entry |-> entry_price, lowest_since_entry |-> entry_price,
     lots |-> lots, opened_at |-> t]

\* PositionState as built by AutoTrader._create_position_state.
NewPositionState(md, action, lots, entry_price, atr, t) ==
  LET p == GetEffectiveParams(md) IN
    IF action = "BUY"
    THEN [direction |-> "LONG", entry_price |-> entry_price, atr |-> atr,
          stop_loss |-> entry_price - (p.sl_mult * atr) \div 100,
          take_profit |-> entry_price + (p.tp_mult * atr) \div 100,
          highest_since_entry |-> entry_price, lowest_since_entry |-> entry_price,
          lots |-> lots, opened_at |-> t]
    ELSE [direction |-> "SHORT", entry_price |-> entry_price, atr |-> atr,
          stop_loss |-> entry_price + (p.sl_mult * atr) \div 100,
          take_profit |-> entry_price - (p.tp_mult * atr) \div 100,
          highest_since_entry |-> entry_price, lowest_since_entry |-> entry_price,
          lots |-> lots, opened_at |-> t]

\* AutoTrader._create_position_state: self._positions[symbol] = PositionState(...)
CreatePositionState(pos, md, s, action, lots, entry_price, atr, t) ==
  Put(pos, s, NewPositionState(md, action, lots, entry_price, atr, t))

\* AutoTrader._calc_pnl: pnl_points of a closing trade.
CalcPnl(ps, exit_price) ==
  IF ps.direction = "LONG" THEN exit_price - ps.entry_price ELSE ps.entry_price - exit_price

\* A faulty trailing update of a LONG position: it follows the price down
\* as well as up.
TrailLongSigned(ps, price, trail_step, trail_move) ==
  LET step100 == trail_step * ps.atr
      steps == IF step100 > 0 THEN ((price - ps.highest_since_entry) * 100) \div step100 ELSE 0
  IN [ps EXCEPT !.highest_since_entry = price,
                !.stop_loss = @ + (steps * trail_move * ps.atr) \div 100]

\* A trailing update of a LONG position that moves the stop by one step
\* however far the price has risen.
TrailLongOneStep(ps, price, trail_step, trail_move) ==
  IF price > ps.highest_since_entry
  THEN LET step100 == trail_step * ps.atr
           steps == IF step100 > 0 /\ (price - ps.highest_since_entry) * 100 >= step100 THEN 1 ELSE 0
           new_sl == ps.stop_loss + (steps * trail_move * ps.atr) \div 100
       IN [ps EXCEPT !.highest_since_entry = price,
                     !.stop_loss = IF steps > 0 /\ new_sl > ps.stop_loss THEN new_sl ELSE @]
  ELSE ps

\* The trailing update of a LONG position in AutoTrader._check_exit.
TrailLong(ps, price, trail_step, trail_move) ==
  IF price > ps.highest_since_entry
  THEN LET old_high == ps.highest_since_entry
           step100 == trail_step * ps.atr
           steps == IF step100 > 0 THEN ((price - old_high) * 100) \div step100 ELSE 0
           new_sl == ps.stop_loss + (steps * trail_move * ps.atr) \div 100
       IN [ps EXCEPT !.highest_since_entry = price,
                     !.stop_loss = IF steps > 0 /\ new_sl > ps.stop_loss THEN new_sl ELSE @]
  ELSE ps

\* A faulty trailing update of a SHORT position: lowest_since_entry takes
\* every price, also a higher one.
TrailShortAlways(ps, price, trail_step, trail_move) ==
  [ps EXCEPT !.lowest_since_entry = price]

\* The trailing update of a SHORT position in AutoTrader._check_exit.
TrailShort(ps, price, trail_step, trail_move) ==
  IF price < ps.lowest_since_entry
  THEN LET old_low == ps.lowest_since_entry
           step100 == trail_step * ps.atr
           steps == IF step100 > 0 THEN ((old_low - price) * 100) \div step100 ELSE 0
           new_sl == ps.stop_loss - (steps * trail_move * ps.atr) \div 100
       IN [ps EXCEPT !.lowest_since_entry = price,
                     !.stop_loss = IF steps > 0 /\ new_sl < ps.stop_loss THEN new_sl ELSE @]
  ELSE ps

\* A TradeDecision.  order_result holds the status of the order, "NONE" when
\* no order was placed.  reason holds the part of the reason text the
\* properties read: "risk_ratio" when the text names the risk ratio.
Decision(t, s, action, lots, price, signal, composite, atr, sl, tp, entry, pnl, hold) ==
  [timestamp |-> t, symbol |-> s, action |-> action, lots |-> lots, price |-> price,
   signal |-> signal, composite_score |-> composite, atr |-> atr, stop_loss |-> sl,
   take_profit |-> tp, entry_price |-> entry, pnl_points |-> pnl,
   holding_seconds |-> hold, order_result |-> "NONE", reason |-> ""]
NoDecision == Decision(0, "", "NONE", 0, 0, "", 0, 0, 0, 0, 0, 0, 0)
HoldDecision(t, s, price, signal, composite, atr, sl, tp) == Decision(t, s, "HOLD", 0, price, signal, composite, atr, sl, tp, 0, 0, 0)

\* The close decision AutoTrader._check_exit builds.
CloseDecision(t, s, ps, action, lots, price, signal, atr) ==
  Decision(t, s, action, lots, price, signal, 0, atr, ps.stop_loss, ps.take_profit, ps.entry_price, CalcPnl(ps, price), SecondsBetween(ps.opened_at, t))

\* A faulty stop-loss test: it fires at the entry price.
StopHitAtEntry(ps, price) == IF ps.direction = "LONG" THEN price <= ps.entry_price ELSE price >= ps.entry_price

\* A faulty take-profit test: it misses the take-profit price itself.
TargetHitStrict(ps, price) == IF ps.direction = "LONG" THEN price > ps.take_profit ELSE price < ps.take_profit

\* The stop-loss and take-profit tests of AutoTrader._check_exit.
StopHit(ps, price) == IF ps.direction = "LONG" THEN price <= ps.stop_loss ELSE price >= ps.stop_loss
TargetHit(ps, price) == IF ps.direction = "LONG" THEN price >= ps.take_profit ELSE price <= ps.take_profit

\* A _check_exit that trails nothing and never returns an exit.
CheckExitNever(pos, md, s, price, atr, long_vol, short_vol, t) == [positions |-> pos, decision |-> NoDecision]

\* AutoTrader._check_exit: the position after the trailing update and the
\* decision returned (NoDecision for None).
CheckExit(pos, md, s, price, atr, long_vol, short_vol, t) ==
  IF ~Has(pos, s) THEN [positions |-> pos, decision |-> NoDecision]
  ELSE
    LET p == GetEffectiveParams(md)
        ps0 == pos[s]
        ps == IF ps0.direction = "LONG" /\ long_vol > 0 THEN TrailLong(ps0, price, p.trail_step, p.trail_move)
              ELSE IF ps0.direction = "SHORT" /\ short_vol > 0 THEN TrailShort(ps0, price, p.trail_step, p.trail_move)
              ELSE ps0
        d == IF ps.direction = "LONG" /\ long_vol > 0
             THEN IF StopHit(ps, price) THEN CloseDecision(t, s, ps, "CLOSE_LONG", long_vol, price, "STOP_LOSS", atr)
                  ELSE IF TargetHit(ps, price) THEN CloseDecision(t, s, ps, "CLOSE_LONG", long_vol, price, "TAKE_PROFIT", atr)
                  ELSE NoDecision
             ELSE IF ps.direction = "SHORT" /\ short_vol > 0
             THEN IF StopHit(ps, price) THEN CloseDecision(t, s, ps, "CLOSE_SHORT", short_vol, price, "STOP_LOSS", atr)
                  ELSE IF TargetHit(ps, price) THEN CloseDecision(t, s, ps, "CLOSE_SHORT", short_vol, price, "TAKE_PROFIT", atr)
                  ELSE NoDecision
             ELSE NoDecision
    IN [positions |-> Put(pos, s, ps), decision |-> d]

----------------------------------------------------------------------------
\* Inputs the engine reads from its collaborators during a step.

\* TqDataService.get_quote: the "price" of the quote, 0 when the quote is
\* None or has no valid price.  A service that is not ready returns None.
QuoteValues(ready) == IF ready THEN Prices \cup {0} ELSE {0}
\* TqDataService.get_atr: 0.0 when unavailable or when the service is not ready.
AtrInputs(ready) == IF ready THEN AtrValues ELSE {0}
\* Quote field volume_multiple; 0 when invalid.
VolMultiples == {0, 10}
\* TqDataService.get_account_info: ok = FALSE is None.
Account(ok, balance, risk_ratio) == [ok |-> ok, balance |-> balance, risk_ratio |-> risk_ratio]
Accounts(ready) == IF ready THEN {Account(FALSE, 0, 0), Account(TRUE, 100000, 50), Account(TRUE, 100000, 80), Account(TRUE, 1000, 50), Account(TRUE, 300, 50)} ELSE {Account(FALSE, 0, 0)}
\* TqDataService.place_order: the status of the result.
OrderStatuses(ready) == IF ready THEN {"SUBMITTED", "ERROR", "TIMEOUT"} ELSE {"ERROR"}
\* DeepSeek analysis of a symbol: ok = FALSE is None (no result); composite in hundredths.
Analysis(ok, signal, composite) == [ok |-> ok, signal |-> signal, composite_score |-> composite]
Analyses == {Analysis(FALSE, "HOLD", 0), Analysis(TRUE, "BUY", 50), Analysis(TRUE, "STRONG_SELL", -50), Analysis(TRUE, "BUY", 20), Analysis(TRUE, "HOLD", 0)}
\* AutoTrader._calc_intraday_signal: (signal, strength), strength in hundredths.
LocalSignal(signal, strength) == [signal |-> signal, strength |-> strength]
LocalSignals == {LocalSignal("HOLD", 0), LocalSignal("BUY", 60), LocalSignal("SELL", 60)}
\* AutoTrader._calc_htf_trend and AutoTrader._calc_adx.
HtfValues == {-1, 0, 1}
AdxValues == {10, 15}
Biases == {"LONG_BIAS", "SHORT_BIAS", "NEUTRAL"}

----------------------------------------------------------------------------
\* What the entry path had read when it called _check_entry: the signal, the
\* 30-min trend and the ADX it computed (0 in swing mode, which computes
\* neither), the stored AI bias, and whether the account information reported
\* a risk ratio at or above max_risk_ratio.
EntryInputs(signal, htf, adx, bias, ready, acct) ==
  [checked |-> TRUE, signal |-> signal, htf |-> htf, adx |-> adx, bias |-> bias,
   risk_ratio_high |-> ready /\ acct.ok /\ acct.risk_ratio >= max_risk_ratio,
   equity |-> IF ready /\ acct.ok THEN acct.balance ELSE 0]
NoEntryInputs ==
  [checked |-> FALSE, signal |-> "", htf |-> 0, adx |-> 0, bias |-> "", risk_ratio_high |-> FALSE, equity |-> 0]

\* What a step of the scheduler has done so far: the engine state it has
\* written and the events it has produced.
Acc(pos, dp, dl, pu) ==
  [positions |-> pos, daily_pnl |-> dp, daily_loss_count |-> dl, pause_until |-> pu,
   orders |-> {}, decisions |-> <<>>, created |-> NoPositions, removed |-> {}, overwrote |-> FALSE,
   skipped |-> FALSE, false_exits |-> {}, entry |-> NoEntryInputs]
StartAcc == Acc(positions, daily_pnl, daily_loss_count, pause_until)

\* self._positions.pop(symbol, None)
AccPop(a, s) ==
  IF Has(a.positions, s)
  THEN [a EXCEPT !.positions = Pop(a.positions, s), !.removed = @ \cup {s}]
  ELSE a

\* self._create_position_state(symbol, action, lots, entry_price, atr)
AccCreate(a, md, s, action, lots, entry_price, atr, t) ==
  [a EXCEPT !.positions = CreatePositionState(a.positions, md, s, action, lots, entry_price, atr, t),
            !.created = Put(@, s, NewPositionState(md, action, lots, entry_price, atr, t)),
            !.overwrote = @ \/ Has(a.positions, s)]

\* AutoTrader._record: the decision joins the decision list.
AccRecord(a, d) == [a EXCEPT !.decisions = Append(@, d)]

\* AutoTrader._execute: the order handed to TqDataService.place_order, with
\* the status it came back with.
OrderOf(d, status, t, gate) ==
  [symbol |-> d.symbol, action |-> d.action,
   direction |-> IF d.action \in {"BUY", "CLOSE_SHORT"} THEN "BUY" ELSE "SELL",
   offset |-> IF d.action \in {"BUY", "SELL"} THEN "OPEN" ELSE "CLOSE",
   volume |-> d.lots, price |-> d.price, status |-> status, time |-> t, gate_time |-> gate]
AccExecute(a, d, status, t, gate) == [a EXCEPT !.orders = @ \cup {OrderOf(d, status, t, gate)}]

\* TqDataService.place_order and _process_orders: a request with a price
\* above 0 becomes insert_order with limit_price, any other a market order.
IsLimitOrder(o) == o.price > 0

\* AutoTrader._record_intraday_pnl
RecordIntradayPnl(a, pnl, is_loss, t) ==
  LET cnt == IF is_loss THEN a.daily_loss_count + 1 ELSE 0 IN
    [a EXCEPT !.daily_pnl = @ + pnl,
              !.daily_loss_count = cnt,
              !.pause_until = IF is_loss /\ cnt >= max_consecutive_losses
                              THEN t + INTRADAY_PAUSE_MINUTES \div MinutesPerUnit ELSE @]

\* A _check_intraday_risk without the low-efficiency hours.
CheckIntradayRiskAnyHour(t, pu, dp, ready, acct) ==
  /\ ~(t < pu)
  /\ ~(ready /\ acct.ok /\ acct.balance > 0 /\ dp < 0 /\ (0 - dp) * 100 >= max_daily_loss * acct.balance * 10)
  /\ ~(14 * 60 + 30 <= MinuteOfDay(t) /\ MinuteOfDay(t) < 15 * 60)

\* AutoTrader._check_intraday_risk: can_trade
CheckIntradayRisk(t, pu, dp, ready, acct) ==
  /\ ~(t < pu)
  /\ ~(ready /\ acct.ok /\ acct.balance > 0 /\ dp < 0 /\ (0 - dp) * 100 >= max_daily_loss * acct.balance * 10)
  /\ ~(14 * 60 + 30 <= MinuteOfDay(t) /\ MinuteOfDay(t) < 15 * 60)
  /\ HourOfDay(t) \notin INTRADAY_NO_ENTRY_HOURS

\* A _check_risk_ratio that lets the entry through at the cap itself.
CheckRiskRatioAbove(ready, acct) ==
  IF ~ready \/ ~acct.ok THEN TRUE ELSE acct.risk_ratio <= max_risk_ratio

\* AutoTrader._check_risk_ratio: can_open
CheckRiskRatio(ready, acct) ==
  IF ~ready \/ ~acct.ok THEN TRUE ELSE acct.risk_ratio < max_risk_ratio

Max(a, b) == IF a >= b THEN a ELSE b
Min(a, b) == IF a <= b THEN a ELSE b

\* A faulty _calc_dynamic_lots: always config.max_lots.
CalcDynamicLotsFull(cap, md, ready, acct, vol_mult, atr) == cap

\* AutoTrader._calc_dynamic_lots, cap being config.max_lots
CalcDynamicLotsOf(cap, md, ready, acct, vol_mult, atr) ==
  LET p == GetEffectiveParams(md) IN
    IF ~ready \/ ~acct.ok \/ acct.balance <= 0 \/ vol_mult <= 0 \/ atr * p.sl_mult <= 0
    THEN cap
    ELSE Max(1, Min((acct.balance * p.risk_pct * 10) \div (atr * p.sl_mult * vol_mult), cap))

\* AutoTrader._calc_dynamic_lots with the configured max_lots
CalcDynamicLots(md, ready, acct, vol_mult, atr) == CalcDynamicLotsOf(max_lots, md, ready, acct, vol_mult, atr)

\* AutoTrader._check_entry
CheckEntry(md, s, signal, composite, price, atr, ready, acct, vol_mult, t) ==
  LET p == GetEffectiveParams(md)
      lots == CalcDynamicLots(md, ready, acct, vol_mult, atr)
  IN IF signal \in {"STRONG_BUY", "BUY"} /\ composite >= signal_threshold
     THEN IF ~CheckRiskRatio(ready, acct)
          THEN [HoldDecision(t, s, price, signal, composite, atr, 0, 0) EXCEPT !.reason = "risk_ratio"]
          ELSE Decision(t, s, "BUY", lots, price, signal, composite, atr,
                        price - (p.sl_mult * atr) \div 100, price + (p.tp_mult * atr) \div 100, 0, 0, 0)
     ELSE IF signal \in {"STRONG_SELL", "SELL"} /\ composite <= 0 - signal_threshold
     THEN IF ~CheckRiskRatio(ready, acct)
          THEN [HoldDecision(t, s, price, signal, composite, atr, 0, 0) EXCEPT !.reason = "risk_ratio"]
          ELSE Decision(t, s, "SELL", lots, price, signal, composite, atr,
                        price + (p.sl_mult * atr) \div 100, price - (p.tp_mult * atr) \div 100, 0, 0, 0)
     ELSE HoldDecision(t, s, price, signal, composite, atr, 0, 0)

\* The tail shared by _swing_entry and _intraday_entry: execute the entry
\* decision, create the managed position when the order result is not an
\* ERROR, record the decision.
EnterOnDecision(a, md, s, d, status, price, atr, t, gate) ==
  IF d.action = "HOLD" THEN AccRecord(a, d)
  ELSE LET a1 == AccExecute(a, d, status, t, gate)
           a2 == IF status # "ERROR" THEN AccCreate(a1, md, s, d.action, d.lots, price, atr, t) ELSE a1
       IN AccRecord(a2, [d EXCEPT !.order_result = status])

\* AutoTrader._swing_entry.  has_df is FALSE when the daily price history
\* is missing.
SwingEntry(a, s, price, atr, has_df, analysis, ready, acct, vol_mult, status, t, gate) ==
  IF ~has_df THEN a
  ELSE IF ~analysis.ok THEN AccRecord(a, HoldDecision(t, s, price, "HOLD", 0, atr, 0, 0))
  ELSE EnterOnDecision([a EXCEPT !.entry = EntryInputs(analysis.signal, 0, 0, "", ready, acct)], "swing", s,
         CheckEntry("swing", s, analysis.signal, analysis.composite_score, price, atr, ready, acct, vol_mult, t),
         status, price, atr, t, gate)

\* An _intraday_entry without the ADX layer.
IntradayEntryNoAdx(a, s, price, atr, bias, local, htf, adx, ready, acct, vol_mult, status, t, gate) ==
  IF ~CheckIntradayRisk(t, a.pause_until, a.daily_pnl, ready, acct)
  THEN AccRecord(a, HoldDecision(t, s, price, "HOLD", 0, atr, 0, 0))
  ELSE IF local.signal = "HOLD" THEN a
  ELSE IF local.signal = "BUY" /\ htf # 1 THEN a
  ELSE IF local.signal = "SELL" /\ htf # -1 THEN a
  ELSE IF bias = "LONG_BIAS" /\ local.signal = "SELL" THEN a
  ELSE IF bias = "SHORT_BIAS" /\ local.signal = "BUY" THEN a
  ELSE EnterOnDecision([a EXCEPT !.entry = EntryInputs(local.signal, htf, adx, bias, ready, acct)], "intraday", s,
         CheckEntry("intraday", s, local.signal,
                    IF local.signal = "BUY" THEN local.strength ELSE 0 - local.strength,
                    price, atr, ready, acct, vol_mult, t),
         status, price, atr, t, gate)

\* AutoTrader._intraday_entry
IntradayEntry(a, s, price, atr, bias, local, htf, adx, ready, acct, vol_mult, status, t, gate) ==
  IF ~CheckIntradayRisk(t, a.pause_until, a.daily_pnl, ready, acct)
  THEN AccRecord(a, HoldDecision(t, s, price, "HOLD", 0, atr, 0, 0))
  ELSE IF local.signal = "HOLD" THEN a
  ELSE IF local.signal = "BUY" /\ htf # 1 THEN a
  ELSE IF local.signal = "SELL" /\ htf # -1 THEN a
  ELSE IF adx < INTRADAY_ADX_MIN THEN a
  ELSE IF bias = "LONG_BIAS" /\ local.signal = "SELL" THEN a
  ELSE IF bias = "SHORT_BIAS" /\ local.signal = "BUY" THEN a
  ELSE EnterOnDecision([a EXCEPT !.entry = EntryInputs(local.signal, htf, adx, bias, ready, acct)], "intraday", s,
         CheckEntry("intraday", s, local.signal,
                    IF local.signal = "BUY" THEN local.strength ELSE 0 - local.strength,
                    price, atr, ready, acct, vol_mult, t),
         status, price, atr, t, gate)

----------------------------------------------------------------------------
\* TqDataService.get_position_info as read by the engine: None (every
\* volume 0) when the service is not ready.
PositionInfo(ready, bp) == IF ready THEN bp ELSE BrokerFlat

\* A faulty step 2 that drops nothing.
StaleCleanupNone(a, s, has_actual) == a

\* A faulty reconciliation that restores from the broker also when a
\* managed position exists.
SyncPositionStateAlways(a, md, s, long_vol, short_vol, long_avg, short_avg, atr, t) ==
  IF long_vol > 0 THEN AccCreate(a, md, s, "BUY", long_vol, long_avg, atr, t)
  ELSE IF short_vol > 0 THEN AccCreate(a, md, s, "SELL", short_vol, short_avg, atr, t)
  ELSE AccPop(a, s)

\* AutoTrader._analyze_and_trade, step 2: the managed position of a symbol
\* without broker volume is dropped before the quote and the ATR are read.
StaleCleanup(a, s, has_actual) == IF ~has_actual /\ Has(a.positions, s) THEN AccPop(a, s) ELSE a

\* AutoTrader._sync_position_state
SyncPositionState(a, md, s, long_vol, short_vol, long_avg, short_avg, atr, t) ==
  LET has_actual == long_vol > 0 \/ short_vol > 0
      direction == IF long_vol > 0 THEN "LONG" ELSE "SHORT"
      entry == IF direction = "LONG" THEN long_avg ELSE short_avg
      lots == IF direction = "LONG" THEN long_vol ELSE short_vol
  IN IF has_actual /\ ~Has(a.positions, s)
     THEN IF entry > 0
          THEN AccCreate(a, md, s, IF direction = "LONG" THEN "BUY" ELSE "SELL", lots, entry, atr, t)
          ELSE a
     ELSE IF ~has_actual /\ Has(a.positions, s) THEN AccPop(a, s)
     ELSE a

\* The stop-loss a managed position was created with.
InitialStop(ps, md) ==
  IF ps.direction = "LONG" THEN ps.entry_price - (GetEffectiveParams(md).sl_mult * ps.atr) \div 100
  ELSE ps.entry_price + (GetEffectiveParams(md).sl_mult * ps.atr) \div 100

\* The price is on the managed side of the stop-loss the position was
\* created with.
InsideInitialStop(ps, md, price) ==
  IF ps.direction = "LONG" THEN price > InitialStop(ps, md) ELSE price < InitialStop(ps, md)

\* What both the cycle and the monitor do with an exit decision: execute it,
\* record it, update the intraday risk state, drop the managed position.
ExitOnDecision(a, md, s, d, status, t, gate) ==
  LET a0 == [a EXCEPT !.false_exits = IF Has(a.positions, s) /\ InsideInitialStop(a.positions[s], md, d.price)
                                      THEN @ \cup {s} ELSE @]
      a1 == AccExecute(a0, d, status, t, gate)
      a2 == AccRecord(a1, [d EXCEPT !.order_result = status])
      a3 == IF md = "intraday" THEN RecordIntradayPnl(a2, d.pnl_points, d.pnl_points < 0, t) ELSE a2
  IN IF d.action \in {"CLOSE_LONG", "CLOSE_SHORT"} THEN AccPop(a3, s) ELSE a2

\* AutoTrader._check_exit applied to the step's state.
AccCheckExit(a, md, s, price, atr, long_vol, short_vol, t) ==
  LET x == CheckExit(a.positions, md, s, price, atr, long_vol, short_vol, t)
  IN [acc |-> [a EXCEPT !.positions = x.positions], decision |-> x.decision]

\* AutoTrader._analyze_and_trade, steps 1 to 5, for the quote and ATR read:
\* the state after reconciliation and trailing, and the exit decision.
AnalyzeToExit(a, md, s, ready, bp, quote, atr, t) ==
  LET pos == PositionInfo(ready, bp)
      a1 == StaleCleanup(a, s, pos.long_volume > 0 \/ pos.short_volume > 0)
  IN IF quote <= 0 \/ atr <= 0 THEN [acc |-> [a1 EXCEPT !.skipped = TRUE], decision |-> NoDecision, done |-> TRUE]
     ELSE LET a2 == SyncPositionState(a1, md, s, pos.long_volume, pos.short_volume, pos.long_avg_price, pos.short_avg_price, atr, t)
              x == AccCheckExit(a2, md, s, quote, atr, pos.long_volume, pos.short_volume, t)
          IN [acc |-> x.acc, decision |-> x.decision, done |-> FALSE]

\* The HOLD decision recorded for a symbol that has broker volume and no exit.
HoldingDecision(a, s, price, atr, t) ==
  IF Has(a.positions, s)
  THEN HoldDecision(t, s, price, "HOLD", 0, atr, a.positions[s].stop_loss, a.positions[s].take_profit)
  ELSE HoldDecision(t, s, price, "HOLD", 0, atr, 0, 0)

\* The exit decisions a step has recorded.
ExitsOf(a) == Cardinality({i \in DOMAIN a.decisions : a.decisions[i].action \in {"CLOSE_LONG", "CLOSE_SHORT"}})

\* The event record a step leaves behind: kind is "analyze" or "monitor" for
\* a step of the cycle or of the monitor, "none" for every other step.
\* created maps every symbol whose managed position the step created to the
\* PositionState as created; skipped tells that the cycle returned at its
\* quote/ATR check; false_exits holds the symbols the step closed at a price
\* that has not reached the initial stop of the position; entry holds what
\* the entry path had read when it reached _check_entry.
EventOf(kind, a) ==
  [kind |-> kind, orders |-> a.orders, decisions |-> a.decisions, created |-> a.created,
   removed |-> a.removed, overwrote |-> a.overwrote, skipped |-> a.skipped,
   false_exits |-> a.false_exits, entry |-> a.entry]
NoEvent == EventOf("none", Acc(NoPositions, 0, 0, 0))

----------------------------------------------------------------------------
TypeOK ==
  /\ mode \in {"swing", "intraday"}
  /\ now \in Nat /\ elapsed \in 0..(MaxElapsed + 1)
  /\ svc_ready \in BOOLEAN
  /\ DOMAIN broker = Symbols
  /\ DOMAIN positions \subseteq Symbols
  /\ daily_pnl \in Int /\ daily_loss_count \in Nat /\ pause_until \in Nat
  /\ DOMAIN ai_bias \subseteq Symbols
  /\ pc \in {"loop", "cycle", "monitor", "sleep"}
  /\ n_exits \in Nat /\ pause_deadline \in Nat

\* The scheduler threads a behaviour may create.
MaxThreads == 3
ThreadIds == 1..MaxThreads
\* The threads that may call start() and stop() at the same time.
MaxCallers == 2
CallerIds == 1..MaxCallers
Caller(at, t) == [pc |-> at, t |-> t]

ThreadEvent(kind, i) == [kind |-> kind, thread |-> i]
NoThreadEvent == ThreadEvent("none", 0)

\* AutoTrader.__init__: not running, no thread, the lock free.
ThreadsConstructed ==
  /\ running = FALSE
  /\ thread = 0
  /\ tpc = [i \in ThreadIds |-> "unborn"]
  /\ cycle_lock = 0
  /\ caller = [c \in CallerIds |-> Caller("idle", 0)]
  /\ tev = NoThreadEvent

\* After one start(): thread 1 runs the trading loop.
ThreadsStarted ==
  /\ running = TRUE
  /\ thread = 1
  /\ tpc = [i \in ThreadIds |-> IF i = 1 THEN "top" ELSE "unborn"]
  /\ cycle_lock = 0
  /\ caller = [c \in CallerIds |-> Caller("idle", 0)]
  /\ tev = NoThreadEvent

----------------------------------------------------------------------------
\* The symbol codec.  A symbol is a sequence of one-character strings; None
\* is the empty sequence.

UpperCase == <<"A", "B", "C", "D", "E", "F", "G", "H", "I", "J", "K", "L", "M", "N", "O", "P", "Q", "R", "S", "T", "U", "V", "W", "X", "Y", "Z">>
LowerCase == <<"a", "b", "c", "d", "e", "f", "g", "h", "i", "j", "k", "l", "m", "n", "o", "p", "q", "r", "s", "t", "u", "v", "w", "x", "y", "z">>
DigitChars == {"0", "1", "2", "3", "4", "5", "6", "7", "8", "9"}
IsUpperLetter(c) == \E i \in DOMAIN UpperCase : UpperCase[i] = c
IsDigit(c) == c \in DigitChars

\* str.upper and str.lower, character by character.
UpperChar(c) == IF \E i \in DOMAIN LowerCase : LowerCase[i] = c
                THEN UpperCase[CHOOSE i \in DOMAIN LowerCase : LowerCase[i] = c] ELSE c
LowerChar(c) == IF \E i \in DOMAIN UpperCase : UpperCase[i] = c
                THEN LowerCase[CHOOSE i \in DOMAIN UpperCase : UpperCase[i] = c] ELSE c
Upper(s) == [i \in DOMAIN s |-> UpperChar(s[i])]
Lower(s) == [i \in DOMAIN s |-> LowerChar(s[i])]

\* str.strip for blanks.
RECURSIVE Strip(_)
Strip(s) ==
  IF s = <<>> THEN s
  ELSE IF Head(s) = " " THEN Strip(Tail(s))
  ELSE IF s[Len(s)] = " " THEN Strip(SubSeq(s, 1, Len(s) - 1))
  ELSE s

\* The number of leading upper-case letters of s.
LetterPrefix(s) ==
  IF \E i \in DOMAIN s : ~IsUpperLetter(s[i])
  THEN (CHOOSE i \in DOMAIN s : ~IsUpperLetter(s[i]) /\ \A j \in 1..(i - 1) : IsUpperLetter(s[j])) - 1
  ELSE Len(s)
AllDigits(s) == \A i \in DOMAIN s : IsDigit(s[i])

\* _EXCHANGE_MAP, as the bases of every exchange.
DCE_BASES ==
  {<<"A">>, <<"B">>, <<"C">>, <<"C", "S">>, <<"I">>, <<"J">>, <<"J", "D">>, <<"J", "M">>,
     <<"L">>, <<"L", "H">>, <<"L", "G">>, <<"M">>, <<"P">>, <<"P", "P">>, <<"V">>, <<"Y">>,
     <<"E", "G">>, <<"E", "B">>, <<"P", "G">>, <<"R", "R">>, <<"B", "Z">>}
SHFE_BASES ==
  {<<"C", "U">>, <<"A", "L">>, <<"Z", "N">>, <<"P", "B">>, <<"N", "I">>, <<"S", "N">>, <<"A", "U">>, <<"A", "G">>,
     <<"R", "B">>, <<"H", "C">>, <<"B", "U">>, <<"R", "U">>, <<"F", "U">>, <<"S", "P">>, <<"S", "S">>, <<"A", "O">>,
     <<"B", "R">>, <<"W", "R">>}
CZCE_BASES ==
  {<<"T", "A">>, <<"M", "A">>, <<"C", "F">>, <<"S", "R">>, <<"O", "I">>, <<"R", "M">>, <<"F", "G">>, <<"S", "A">>,
     <<"A", "P">>, <<"C", "J">>, <<"U", "R">>, <<"P", "F">>, <<"P", "K">>, <<"S", "F">>, <<"S", "M">>, <<"C", "Y">>,
     <<"W", "H">>, <<"R", "S">>, <<"S", "H">>, <<"P", "X">>, <<"P", "R">>, <<"P", "L">>}
INE_BASES ==
  {<<"S", "C">>, <<"N", "R">>, <<"L", "U">>, <<"B", "C">>, <<"E", "C">>}
CFFEX_BASES ==
  {<<"I", "F">>, <<"I", "H">>, <<"I", "C">>, <<"I", "M">>, <<"T", "F">>, <<"T", "S">>, <<"T">>}
GFEX_BASES ==
  {<<"S", "I">>, <<"L", "C">>, <<"P", "S">>, <<"P", "T">>, <<"P", "D">>}

DCE == <<"D", "C", "E">>
SHFE == <<"S", "H", "F", "E">>
CZCE == <<"C", "Z", "C", "E">>
INE == <<"I", "N", "E">>
CFFEX == <<"C", "F", "F", "E", "X">>
GFEX == <<"G", "F", "E", "X">>

\* _EXCHANGE_MAP.get(base): <<>> is None.
ExchangeOf(base) ==
  IF base \in DCE_BASES THEN DCE
  ELSE IF base \in SHFE_BASES THEN SHFE
  ELSE IF base \in CZCE_BASES THEN CZCE
  ELSE IF base \in INE_BASES THEN INE
  ELSE IF base \in CFFEX_BASES THEN CFFEX
  ELSE IF base \in GFEX_BASES THEN GFEX
  ELSE <<>>

\* _BASE_RE = ^([A-Z]{1,2})(\d+)$ : whether sym matches.
MatchesBaseRe(sym) ==
  LET n == LetterPrefix(sym) IN
    n \in {1, 2} /\ Len(sym) > n /\ AllDigits(SubSeq(sym, n + 1, Len(sym)))

\* to_tq_symbol
ToTqSymbol(our) ==
  LET sym == Upper(Strip(our))
      n == LetterPrefix(sym)
      base == SubSeq(sym, 1, n)
      digits == SubSeq(sym, n + 1, Len(sym))
      exchange == ExchangeOf(base)
  IN IF ~MatchesBaseRe(sym) THEN <<>>
     ELSE IF exchange = <<>> THEN <<>>
     ELSE IF exchange = CZCE
     THEN exchange \o <<".">> \o base \o (IF Len(digits) >= 3 THEN SubSeq(digits, Len(digits) - 2, Len(digits)) ELSE digits)
     ELSE IF exchange = CFFEX THEN exchange \o <<".">> \o base \o digits
     ELSE exchange \o <<".">> \o Lower(base) \o digits

\* A from_tq_symbol that prepends no decade digit.
FromTqSymbolPlain(tq) ==
  IF ~\E i \in DOMAIN tq : tq[i] = "." THEN Upper(tq)
  ELSE LET dot == CHOOSE i \in DOMAIN tq : tq[i] = "." /\ \A j \in 1..(i - 1) : tq[j] # "."
       IN Upper(SubSeq(tq, dot + 1, Len(tq)))

\* from_tq_symbol
FromTqSymbol(tq) ==
  IF ~\E i \in DOMAIN tq : tq[i] = "." THEN Upper(tq)
  ELSE LET dot == CHOOSE i \in DOMAIN tq : tq[i] = "." /\ \A j \in 1..(i - 1) : tq[j] # "."
           exchange == SubSeq(tq, 1, dot - 1)
           code_upper == Upper(SubSeq(tq, dot + 1, Len(tq)))
           n == LetterPrefix(code_upper)
       IN IF exchange = CZCE /\ n >= 1 /\ Len(code_upper) = n + 3 /\ AllDigits(SubSeq(code_upper, n + 1, Len(code_upper)))
          THEN SubSeq(code_upper, 1, n) \o <<"2">> \o SubSeq(code_upper, n + 1, Len(code_upper))
          ELSE code_upper

\* The internal symbols the round trip is followed for: <BASE><DIGITS> with
\* a base of every exchange and 3 or 4 digits.
CodecBases == {<<"M">>, <<"C", "S">>, <<"R", "B">>, <<"S", "A">>, <<"T", "A">>, <<"S", "C">>, <<"I", "F">>, <<"T">>, <<"S", "I">>}
CodecDigits == {"0", "2", "3", "6"}
DigitLengths == {3, 4}
DigitStrings == UNION {[1..n -> CodecDigits] : n \in DigitLengths}
InternalSymbols == {b \o d : b \in CodecBases, d \in DigitStrings}

\* No round trip under way.
CodecIdle ==
  /\ our_symbol = <<>> /\ tq_symbol = <<>> /\ back_symbol = <<>> /\ cpc = "input"

----------------------------------------------------------------------------
\* The orders a behaviour may queue, and the iterations of the polling loop
\* of place_order (50 in the code).
MaxOrders == 2
MaxPolls == 2

\* A result of place_order.  id 0 is the empty id of the results that never
\* reached the queue; these carry no symbol, direction, offset, volume or
\* price (<<>>, "" and 0 here).
Result(id, status, symbol, direction, offset, volume, price) ==
  [id |-> id, status |-> status, symbol |-> symbol, direction |-> direction,
   offset |-> offset, volume |-> volume, price |-> price]
NoResult == Result(0, "NONE", <<>>, "", "", 0, 0)
EarlyError == Result(0, "ERROR", <<>>, "", "", 0, 0)
Timeout(id) == Result(id, "TIMEOUT", <<>>, "", "", 0, 0)

\* The symbols place_order is called with: one of DCE, one of CZCE, one
\* whose base no exchange has.
OrderSymbols == {<<"M", "2", "5", "0", "9">>, <<"S", "A", "6", "0", "5">>, <<"X", "X", "1">>}
OrderPrices == {0, 24400}

\* TqDataService.__init__ with no trade log file.
OrdersConstructed ==
  /\ pending_orders = <<>>
  /\ order_results = <<>>
  /\ trade_log = <<>>
  /\ trade_log_file = <<>>
  /\ opc = "idle"
  /\ polls = 0
  /\ cur_oid = 0
  /\ next_oid = 1
  /\ ret = NoResult

----------------------------------------------------------------------------
\* Persistence.  A file is missing, holds JSON data, or is corrupt (cut
\* short by a json.dump that raised).
MaxRecords == 3
DECISIONS_MAX == 500
DECISIONS_KEEP == 300

File(state, data) == [state |-> state, data |-> data]
MissingFile == File("missing", <<>>)

\* The order result a decision carries: None for status "NONE", else the
\* dict place_order returned; the dict of a SUBMITTED order holds the
\* broker's order object under "tq_order".
OrderResultDict(status) == [status |-> status, tq_order |-> status = "SUBMITTED"]

\* A TradeDecision as the engine holds it in _decisions.
Stored(d) == [d EXCEPT !.order_result = OrderResultDict(d.order_result)]

\* _save_state on one decision: the order result keeps its values of type
\* str, int, float, bool and None, which drops the order object.
SavedDecision(sd) == [sd EXCEPT !.order_result = [@ EXCEPT !.tq_order = FALSE]]

\* _load_state on one item of the decisions file.
LoadedDecision(item) ==
  [timestamp |-> item.timestamp, symbol |-> item.symbol, action |-> item.action, lots |-> item.lots,
   price |-> item.price, signal |-> item.signal, composite_score |-> item.composite_score,
   atr |-> item.atr, stop_loss |-> item.stop_loss, take_profit |-> item.take_profit,
   entry_price |-> item.entry_price, pnl_points |-> item.pnl_points,
   holding_seconds |-> item.holding_seconds, order_result |-> item.order_result, reason |-> item.reason]

\* asdict(ps) and PositionState(**ps_data).
AsDict(ps) ==
  [direction |-> ps.direction, entry_price |-> ps.entry_price, atr |-> ps.atr,
   stop_loss |-> ps.stop_loss, take_profit |-> ps.take_profit,
   highest_since_entry |-> ps.highest_since_entry, lowest_since_entry |-> ps.lowest_since_entry,
   lots |-> ps.lots, opened_at |-> ps.opened_at]
FromDict(data) ==
  [direction |-> data.direction, entry_price |-> data.entry_price, atr |-> data.atr,
   stop_loss |-> data.stop_loss, take_profit |-> data.take_profit,
   highest_since_entry |-> data.highest_since_entry, lowest_since_entry |-> data.lowest_since_entry,
   lots |-> data.lots, opened_at |-> data.opened_at]

\* _append_trade_log: the entry of an open or close decision; order_result
\* is the decision's own dict.
TradeLogEntry(sd) ==
  [timestamp |-> sd.timestamp, symbol |-> sd.symbol, action |-> sd.action,
   type |-> IF sd.action \in {"CLOSE_LONG", "CLOSE_SHORT"} THEN "close" ELSE "open",
   direction |-> IF sd.action \in {"BUY", "CLOSE_LONG"} THEN "LONG" ELSE "SHORT",
   lots |-> sd.lots, price |-> sd.price, atr |-> sd.atr, stop_loss |-> sd.stop_loss,
   take_profit |-> sd.take_profit, signal |-> sd.signal, composite_score |-> sd.composite_score,
   reason |-> sd.reason, order_result |-> sd.order_result,
   entry_price |-> sd.entry_price, pnl_points |-> sd.pnl_points, holding_seconds |-> sd.holding_seconds]

\* json.dump of a trade log: it raises on an order object and leaves the
\* file cut short.
JsonSerializable(log) == \A i \in DOMAIN log : ~log[i].order_result.tq_order

\* The trade log part of _save_state.
DumpTradeLog(log) == IF JsonSerializable(log) THEN File("ok", log) ELSE File("corrupt", <<>>)

\* No exit check made yet.
FeedIdle == fed = <<>> /\ checked = [positions |-> NoPositions, decision |-> NoDecision]

\* A call of add_contract or remove_contract and its outcome.
ContractCall(op, symbol, sym, ok) == [op |-> op, symbol |-> symbol, sym |-> sym, ok |-> ok]
NoContractCall == ContractCall("none", <<>>, <<>>, FALSE)
\* The values of the last two bars that _calc_intraday_signal reads: the
\* three moving averages, RSI(6), DIF - DEA, K and D of the last bar, the
\* RSI, DIF - DEA and K - D of the bar before, the volume and its 20-bar mean,
\* the open interest now and five bars ago, the close against the previous
\* bar's high and low.  ready = FALSE: fewer than 30 bars or a NaN among the
\* checked values.
Indicators(ready, ma, rsi, macd, kdj, vol, oi, close) ==
  [ready |-> ready, cur_ma5 |-> ma[1], cur_ma10 |-> ma[2], cur_ma20 |-> ma[3],
   prev_rsi |-> rsi[1], cur_rsi |-> rsi[2],
   prev_gap |-> macd[1], cur_gap |-> macd[2],
   prev_kd |-> kdj[1], cur_k |-> kdj[2], cur_d |-> kdj[3],
   cur_vol |-> vol[1], cur_vol_ma |-> vol[2],
   oi_prev |-> oi[1], oi_now |-> oi[2],
   cur_close |-> close[1], prev_high |-> close[2], prev_low |-> close[3]]
NoIndicators == Indicators(FALSE, <<0, 0, 0>>, <<0, 0>>, <<0, 0>>, <<0, 0, 0>>, <<0, 0>>, <<0, 0>>, <<0, 0, 0>>)
\* A double below 2 as a whole number of 2^-57, in two limbs of 28 bits.
Float(hi, lo) == [hi |-> hi, lo |-> lo]
NoSignal == [signal |-> "none", strength |-> Float(0, 0)]
SignalIdle == indicators = NoIndicators /\ intraday_signal = NoSignal
\* One call of _calc_dynamic_lots: the inputs and the lots returned.
Sizing(cap, ready, acct, vol_mult, atr, lots) ==
  [max_lots |-> cap, ready |-> ready, acct |-> acct, vol_mult |-> vol_mult, atr |-> atr, lots |-> lots]
NoSizing == Sizing(0, FALSE, [ok |-> FALSE, balance |-> 0, risk_ratio |-> 0], 0, 0, 0)
SizingIdle == sizing = NoSizing
ChannelsHeld == position_channel = [s \in Symbols |-> "held"]
NothingSeen == held_stop = [s \in Symbols |-> 0] /\ counted = [s \in Symbols |-> 0] /\ requested = [s \in Symbols |-> 0]
QuietButChannels == last_call = NoContractCall /\ FeedIdle /\ realized_pnl = 0 /\ SignalIdle /\ SizingIdle /\ NothingSeen
QuietCalls == QuietButChannels /\ ChannelsHeld
CallsIdle == QuietCalls /\ last_price = [s \in Symbols |-> 0]

\* AutoTrader.__init__ with no file on disk.
PersistConstructed ==
  /\ trader_contracts = <<>>
  /\ decisions = <<>>
  /\ auto_trade_log = <<>>
  /\ config_file = MissingFile
  /\ decisions_file = MissingFile
  /\ positions_file = MissingFile
  /\ auto_trade_log_file = MissingFile
  /\ fresh = [loaded |-> FALSE, contracts |-> <<>>, decisions |-> <<>>, positions |-> NoPositions, trade_log |-> <<>>]
  /\ n_records = 0

----------------------------------------------------------------------------
\* The worker threads a behaviour may create.
MaxWorkers == 2
WorkerIds == 1..MaxWorkers

ClientCall(kind, by, client) == [kind |-> kind, by |-> by, client |-> client]
NoClientCall == ClientCall("none", 0, 0)

\* TqDataService.__init__
ServiceConstructed ==
  /\ svc_running = FALSE
  /\ ready_event = FALSE
  /\ api = 0
  /\ wpc = [i \in WorkerIds |-> "unborn"]
  /\ scaller = "idle"
  /\ raised = {}
  /\ sev = NoClientCall

\* After one start() that returned True: worker 1 is in its loop.
ServiceStarted ==
  /\ svc_running = TRUE
  /\ ready_event = TRUE
  /\ api = 1
  /\ wpc = [i \in WorkerIds |-> IF i = 1 THEN "loop" ELSE "unborn"]
  /\ scaller = "idle"
  /\ raised = {}
  /\ sev = NoClientCall

\* The engine when its one scheduler thread enters the trading loop.
\* AutoTrader.__init__ and the environment at that moment, the mode and the
\* clock apart.
EngineConstructed ==
  /\ elapsed = 0
  /\ svc_ready = TRUE
  /\ broker = [s \in Symbols |-> BrokerFlat]
  /\ positions = NoPositions
  /\ daily_pnl = 0
  /\ daily_loss_count = 0
  /\ pause_until = 0
  /\ last_trade_date = -1
  /\ ai_bias = NoPositions
  /\ ai_bias_updated = 0
  /\ was_trading = IsTradingHours(now)
  /\ pc = "loop"
  /\ todo = <<>>
  /\ gate_time = 0
  /\ n_exits = 0
  /\ pause_deadline = 0
  /\ ev = NoEvent

EngineInit ==
  /\ mode \in {"swing", "intraday"}
  /\ now \in StartsOf(mode)
  /\ EngineConstructed

\* The engine before any step, in one mode at one time.
EngineParked == EngineInit /\ mode = "swing" /\ now = At(20, 55)

Init == EngineInit /\ ThreadsStarted /\ ServiceStarted /\ CodecIdle /\ OrdersConstructed /\ PersistConstructed /\ CallsIdle

\* The engine state a finished step writes back; cap bounds the closes of
\* the behaviour.
Commit(kind, a, cap) ==
  /\ positions' = a.positions
  /\ daily_pnl' = a.daily_pnl
  /\ daily_loss_count' = a.daily_loss_count
  /\ pause_until' = a.pause_until
  /\ n_exits' = IF mode = "intraday" THEN n_exits + ExitsOf(a) ELSE n_exits
  /\ n_exits' <= cap
  /\ pause_deadline' = IF a.pause_until # pause_until THEN a.pause_until ELSE pause_deadline
  /\ ev' = EventOf(kind, a)

\* Where the loop goes when _run_one_cycle has returned: the 500 ms monitor
\* ticks when positions are managed, plain sleep otherwise.
AfterCycle(pos) == IF DOMAIN pos # {} THEN "monitor" ELSE "sleep"

\* One contract of the cycle is done.
CycleCommit(a, cap) ==
  /\ Commit("analyze", a, cap)
  /\ todo' = Tail(todo)
  /\ pc' = IF Tail(todo) = <<>> THEN AfterCycle(a.positions) ELSE "cycle"
  /\ gate_time' = IF Tail(todo) = <<>> THEN 0 ELSE gate_time
  /\ UNCHANGED <<mode, now, elapsed, svc_ready, broker, last_trade_date, ai_bias, ai_bias_updated, was_trading>>

----------------------------------------------------------------------------
\* AutoTrader._reset_daily_state, as the new values of the daily risk state.
ResetDailyState(t, r) ==
  IF r.last_trade_date # DateOf(t)
  THEN [daily_pnl |-> 0, daily_loss_count |-> 0, pause_until |-> 0, last_trade_date |-> DateOf(t),
        ai_bias |-> NoPositions, ai_bias_updated |-> 0]
  ELSE r
DailyState ==
  [daily_pnl |-> daily_pnl, daily_loss_count |-> daily_loss_count, pause_until |-> pause_until,
   last_trade_date |-> last_trade_date, ai_bias |-> ai_bias, ai_bias_updated |-> ai_bias_updated]

\* AutoTrader._update_ai_bias: oracle[s] is the bias the analysis of s
\* yields, "KEEP" when the analysis has no result.
UpdateAiBias(bias, oracle) ==
  LET upd == {s \in Symbols : oracle[s] # "KEEP"}
  IN [s \in (DOMAIN bias) \cup upd |-> IF s \in upd THEN oracle[s] ELSE bias[s]]

\* AutoTrader._do_run_one_cycle up to its loop over the contracts: the
\* session gate and the readiness of the service.
CycleGate(t, ready) == IsTradingHours(t) /\ ready

\* One iteration of AutoTrader._trading_loop_swing up to the call of
\* _analyze_and_trade for the first contract.
LoopSwing ==
  /\ pc = "loop" /\ mode = "swing"
  /\ was_trading' = IsTradingHours(now)
  /\ IF CycleGate(now, svc_ready)
     THEN pc' = "cycle" /\ todo' = Contracts /\ gate_time' = now
     ELSE pc' = AfterCycle(positions) /\ UNCHANGED <<todo, gate_time>>
  /\ ev' = NoEvent
  /\ UNCHANGED <<mode, now, elapsed, svc_ready, broker, positions, daily_pnl, daily_loss_count, pause_until, last_trade_date, ai_bias, ai_bias_updated, n_exits, pause_deadline>>

\* One iteration of AutoTrader._trading_loop_intraday up to the call of
\* _analyze_and_trade for the first contract: the daily reset, the AI bias
\* refresh and the gate of the cycle.
LoopIntraday ==
  /\ pc = "loop" /\ mode = "intraday"
  /\ was_trading' = IsTradingHours(now)
  /\ ev' = NoEvent
  /\ UNCHANGED <<mode, now, elapsed, svc_ready, broker, positions, n_exits, pause_deadline>>
  /\ IF ~IsTradingHours(now)
     THEN UNCHANGED <<pc, todo, gate_time, daily_pnl, daily_loss_count, pause_until, last_trade_date, ai_bias, ai_bias_updated>>
     ELSE LET r == ResetDailyState(now, DailyState)
              refresh == SecondsBetween(r.ai_bias_updated, now) > AI_BIAS_INTERVAL
          IN /\ daily_pnl' = r.daily_pnl
             /\ daily_loss_count' = r.daily_loss_count
             /\ pause_until' = r.pause_until
             /\ last_trade_date' = r.last_trade_date
             /\ IF refresh
                THEN \E oracle \in [Symbols -> Biases \cup {"KEEP"}] :
                       ai_bias' = UpdateAiBias(r.ai_bias, oracle) /\ ai_bias_updated' = now
                ELSE ai_bias' = r.ai_bias /\ ai_bias_updated' = r.ai_bias_updated
             /\ IF CycleGate(now, svc_ready)
                THEN pc' = "cycle" /\ todo' = Contracts /\ gate_time' = now
                ELSE pc' = AfterCycle(positions) /\ UNCHANGED <<todo, gate_time>>

\* The inputs a step reads depend on how far the entry pipeline gets: an
\* input that is never read is not enumerated.
Aligned(local, htf) == (local.signal = "BUY" /\ htf = 1) \/ (local.signal = "SELL" /\ htf = -1)
HtfInputs(local) == IF local.signal = "HOLD" THEN {0} ELSE HtfValues
AdxInputs(local, htf) == IF Aligned(local, htf) THEN AdxValues ELSE {INTRADAY_ADX_MIN}
VolInputs(local, htf, adx, acct) == IF Aligned(local, htf) /\ adx >= INTRADAY_ADX_MIN /\ acct.ok /\ acct.balance > 0 THEN VolMultiples ELSE {0}
IntradayAccountInputs(local, htf, adx, ready) == IF daily_pnl < 0 \/ (Aligned(local, htf) /\ adx >= INTRADAY_ADX_MIN) THEN Accounts(ready) ELSE {Account(FALSE, 0, 0)}
StatusInputs(local, htf, adx, ready) == IF Aligned(local, htf) /\ adx >= INTRADAY_ADX_MIN THEN OrderStatuses(ready) ELSE {"ERROR"}
AnalysisInputs(has_df) == IF has_df THEN Analyses ELSE {Analysis(FALSE, "HOLD", 0)}
SwingAccountInputs(has_df, analysis, ready) == IF has_df /\ analysis.ok /\ analysis.signal # "HOLD" THEN Accounts(ready) ELSE {Account(FALSE, 0, 0)}
SwingVolInputs(acct) == IF acct.ok /\ acct.balance > 0 THEN VolMultiples ELSE {0}
SwingStatusInputs(has_df, analysis, ready) == IF has_df /\ analysis.ok /\ analysis.signal # "HOLD" THEN OrderStatuses(ready) ELSE {"ERROR"}

\* AutoTrader._analyze_and_trade for the next contract of the running cycle;
\* quotes[s] is the set of prices get_quote can return for s.
AnalyzeAndTradeOn(cap, quotes, held) ==
  /\ pc = "cycle" /\ todo # <<>>
  /\ LET s == Head(todo)
         pos == PositionInfo(svc_ready, held[s])
         flat == pos.long_volume = 0 /\ pos.short_volume = 0
     IN \E quote \in quotes[s] :
        \E atr \in (IF quote > 0 THEN AtrInputs(svc_ready) ELSE {0}) :
          LET x == AnalyzeToExit(StartAcc, mode, s, svc_ready, held[s], quote, atr, now)
          IN IF x.done THEN CycleCommit(x.acc, cap)
             ELSE IF x.decision.action # "NONE"
             THEN \E status \in OrderStatuses(svc_ready) :
                    CycleCommit(ExitOnDecision(x.acc, mode, s, x.decision, status, now, gate_time), cap)
             ELSE IF ~flat THEN CycleCommit(AccRecord(x.acc, HoldingDecision(x.acc, s, quote, atr, now)), cap)
             ELSE IF mode = "intraday"
             THEN \E local \in LocalSignals :
                  \E htf \in HtfInputs(local) :
                  \E adx \in AdxInputs(local, htf) :
                  \E acct \in IntradayAccountInputs(local, htf, adx, svc_ready) :
                  \E vol_mult \in VolInputs(local, htf, adx, acct), status \in StatusInputs(local, htf, adx, svc_ready) :
                    CycleCommit(IntradayEntry(x.acc, s, quote, atr,
                                  IF Has(ai_bias, s) THEN ai_bias[s] ELSE "NEUTRAL",
                                  local, htf, adx, svc_ready, acct, vol_mult, status, now, gate_time), cap)
             ELSE \E has_df \in BOOLEAN :
                  \E analysis \in AnalysisInputs(has_df) :
                  \E acct \in SwingAccountInputs(has_df, analysis, svc_ready) :
                  \E vol_mult \in SwingVolInputs(acct), status \in SwingStatusInputs(has_df, analysis, svc_ready) :
                    CycleCommit(SwingEntry(x.acc, s, quote, atr, has_df, analysis, svc_ready, acct, vol_mult, status, now, gate_time), cap)

\* AutoTrader._analyze_and_trade when the service holds the position object
\* of every symbol.
AnalyzeAndTradeAt(cap, quotes) == AnalyzeAndTradeOn(cap, quotes, broker)

\* Any price of the model, 0 when the quote is unavailable.
AnyQuote == [s \in Symbols |-> QuoteValues(svc_ready)]

AnalyzeAndTrade(cap) == AnalyzeAndTradeAt(cap, AnyQuote)

\* AutoTrader._do_monitor_stop_levels for one managed symbol.
MonitorSymbol(a, md, s, ready, bp, quote, status, near_close, t) ==
  LET pos == PositionInfo(ready, bp)
      long_vol == pos.long_volume
      short_vol == pos.short_volume
  IN IF ~Has(a.positions, s) \/ quote <= 0 \/ (long_vol = 0 /\ short_vol = 0) THEN a
     ELSE IF near_close
     THEN LET ps == a.positions[s]
              d == CloseDecision(t, s, ps, IF long_vol > 0 THEN "CLOSE_LONG" ELSE "CLOSE_SHORT",
                                 IF long_vol > 0 THEN long_vol ELSE short_vol, quote, "MARKET_CLOSE", ps.atr)
          IN ExitOnDecision(a, md, s, d, status, t, t)
     ELSE LET x == AccCheckExit(a, md, s, quote, a.positions[s].atr, long_vol, short_vol, t)
          IN IF x.decision.action # "NONE" THEN ExitOnDecision(x.acc, md, s, x.decision, status, t, t) ELSE x.acc

\* The loop of _do_monitor_stop_levels over list(self._positions.keys()).
RECURSIVE MonitorAll(_, _, _, _, _, _, _, _)
MonitorAll(a, md, todoSyms, ready, quotes, statuses, near_close, t) ==
  IF todoSyms = {} THEN a
  ELSE LET s == CHOOSE x \in todoSyms : TRUE
       IN MonitorAll(MonitorSymbol(a, md, s, ready, broker[s], quotes[s], statuses[s], near_close, t),
                     md, todoSyms \ {s}, ready, quotes, statuses, near_close, t)

\* The order statuses a monitor tick can meet: enumerated only when the
\* tick places an order for these quotes.
MonitorStatusInputs(quotes) ==
  LET a == MonitorAll(StartAcc, mode, DOMAIN positions, svc_ready, quotes, [s \in Symbols |-> "ERROR"],
                      close_before_market_close /\ IsNearMarketClose(now), now)
  IN IF a.orders = {} THEN {[s \in Symbols |-> "ERROR"]} ELSE [Symbols -> OrderStatuses(svc_ready)]

\* AutoTrader._monitor_stop_levels: one 500 ms tick of the SL/TP monitor.
MonitorStopLevelsAt(cap, quote_of) ==
  /\ pc = "monitor"
  /\ IF ~IsTradingHours(now) \/ ~svc_ready
     THEN Commit("monitor", StartAcc, cap)
     ELSE \E quotes \in {q \in [Symbols -> Prices \cup {0}] : \A s \in Symbols : q[s] \in quote_of[s]} :
          \E statuses \in MonitorStatusInputs(quotes) :
            Commit("monitor", MonitorAll(StartAcc, mode, DOMAIN positions, svc_ready, quotes, statuses,
                                         close_before_market_close /\ IsNearMarketClose(now), now), cap)
  /\ UNCHANGED <<mode, now, elapsed, svc_ready, broker, last_trade_date, ai_bias, ai_bias_updated, was_trading, pc, todo, gate_time>>

MonitorStopLevels(cap) == MonitorStopLevelsAt(cap, AnyQuote)

\* The wait between two cycles is over (monitor ticks or plain sleep).
EndWait ==
  /\ pc \in {"monitor", "sleep"}
  /\ pc' = "loop"
  /\ ev' = NoEvent
  /\ UNCHANGED <<mode, now, elapsed, svc_ready, broker, positions, daily_pnl, daily_loss_count, pause_until, last_trade_date, ai_bias, ai_bias_updated, was_trading, todo, gate_time, n_exits, pause_deadline>>

\* The wall clock advances.
Tick ==
  /\ elapsed < MaxElapsed
  /\ now' = now + 1
  /\ elapsed' = elapsed + 1
  /\ ev' = NoEvent
  /\ UNCHANGED <<mode, svc_ready, broker, positions, daily_pnl, daily_loss_count, pause_until, last_trade_date, ai_bias, ai_bias_updated, was_trading, pc, todo, gate_time, n_exits, pause_deadline>>

\* The broker position of a symbol changes: a fill, or a trade made
\* through another channel.
BrokerUpdate ==
  /\ \E s \in Symbols, bp \in BrokerStates : bp # broker[s] /\ broker' = [broker EXCEPT ![s] = bp]
  /\ ev' = NoEvent
  /\ UNCHANGED <<mode, now, elapsed, svc_ready, positions, daily_pnl, daily_loss_count, pause_until, last_trade_date, ai_bias, ai_bias_updated, was_trading, pc, todo, gate_time, n_exits, pause_deadline>>

\* The market-data service loses or regains readiness.
ServiceChange ==
  /\ svc_ready' = ~svc_ready
  /\ ev' = NoEvent
  /\ UNCHANGED <<mode, now, elapsed, broker, positions, daily_pnl, daily_loss_count, pause_until, last_trade_date, ai_bias, ai_bias_updated, was_trading, pc, todo, gate_time, n_exits, pause_deadline>>

Next ==
  \/ LoopSwing /\ UNCHANGED rest
  \/ LoopIntraday /\ UNCHANGED rest
  \/ AnalyzeAndTrade(MaxExits) /\ UNCHANGED rest
  \/ MonitorStopLevels(MaxExits) /\ UNCHANGED rest
  \/ EndWait /\ UNCHANGED rest
  \/ Tick /\ UNCHANGED rest
  \/ BrokerUpdate /\ UNCHANGED rest
  \/ ServiceChange /\ UNCHANGED rest

Spec == Init /\ [][Next]_vars

----------------------------------------------------------------------------
\* The intraday engine followed through a losing streak.  The service stays
\* ready, no bias analysis yields a result, the broker never reports a
\* short leg and no close wins; within that environment a behaviour may
\* record MaxStreakExits closes.  Every behaviour of SpecStreak is a
\* behaviour of the engine.
StreakEnv ==
  /\ svc_ready /\ DOMAIN ai_bias = {}
  /\ \A s \in Symbols : broker[s].short_volume = 0
  /\ \A i \in DOMAIN ev.decisions : ev.decisions[i].pnl_points <= 0

InitStreak == Init /\ mode = "intraday"

NextStreak ==
  \/ LoopIntraday /\ StreakEnv' /\ UNCHANGED rest
  \/ AnalyzeAndTrade(MaxStreakExits) /\ StreakEnv' /\ UNCHANGED rest
  \/ MonitorStopLevels(MaxStreakExits) /\ StreakEnv' /\ UNCHANGED rest
  \/ EndWait /\ UNCHANGED rest
  \/ Tick /\ UNCHANGED rest
  \/ BrokerUpdate /\ StreakEnv' /\ UNCHANGED rest

SpecStreak == InitStreak /\ [][NextStreak]_vars

----------------------------------------------------------------------------
\* The threads of the auto-trader.  The caller threads (request handlers)
\* run start() and stop(); every thread start() creates runs _trading_loop.  The
\* join(timeout=30) of start() and stop() returns when the joined thread has
\* ended or when the 30 s are over: a thread in its wait sees _running within
\* a second, a thread inside a cycle or a monitor pass (network calls, order
\* waits) may take longer than the 30 s.

IsAlive(i) == i # 0 /\ tpc[i] \notin {"unborn", "ended"}

\* old.join(timeout=30) / t.join(timeout=30) has returned.
JoinReturns(i) == ~IsAlive(i) \/ tpc[i] \in {"cycle", "monitor"}

\* An acquire that succeeds whoever holds the lock.
AcquireAnyway(lock) == TRUE

\* self._cycle_lock.acquire(blocking=False): whether the lock is obtained.
Acquire(lock) == lock = 0

\* start() from its last part on: _running = True, a new thread is created
\* and started.
Launch ==
  \E n \in ThreadIds :
    /\ tpc[n] = "unborn" /\ \A m \in ThreadIds : m < n => tpc[m] # "unborn"
    /\ running' = TRUE
    /\ thread' = n
    /\ tpc' = [tpc EXCEPT ![n] = "top"]

\* AutoTrader.start up to old.join: returns at once when already running or
\* when no contract is given; sets _running = False and joins a lingering
\* thread.
StartCall(c) ==
  /\ caller[c].pc = "idle"
  /\ \E has_contracts \in BOOLEAN :
       IF running THEN UNCHANGED <<running, thread, tpc, caller>>
       ELSE IF IsAlive(thread)
       THEN caller' = [caller EXCEPT ![c] = Caller("start_join", thread)] /\ running' = FALSE /\ UNCHANGED <<thread, tpc>>
       ELSE IF ~has_contracts THEN UNCHANGED <<running, thread, tpc, caller>>
       ELSE Launch /\ UNCHANGED caller
  /\ tev' = NoThreadEvent
  /\ UNCHANGED cycle_lock

\* AutoTrader.start after old.join(timeout=30) has returned.
StartAfterJoin(c) ==
  /\ caller[c].pc = "start_join" /\ JoinReturns(caller[c].t)
  /\ caller' = [caller EXCEPT ![c] = Caller("idle", 0)]
  /\ \E has_contracts \in BOOLEAN :
       IF ~has_contracts THEN UNCHANGED <<running, thread, tpc>> ELSE Launch
  /\ tev' = NoThreadEvent
  /\ UNCHANGED cycle_lock

\* AutoTrader.stop up to t.join.
StopCall(c) ==
  /\ caller[c].pc = "idle"
  /\ running' = FALSE
  /\ IF IsAlive(thread) THEN caller' = [caller EXCEPT ![c] = Caller("stop_join", thread)] /\ UNCHANGED thread
     ELSE thread' = 0 /\ UNCHANGED caller
  /\ tev' = NoThreadEvent
  /\ UNCHANGED <<tpc, cycle_lock>>

\* AutoTrader.stop after t.join(timeout=30) has returned.
StopAfterJoin(c) ==
  /\ caller[c].pc = "stop_join" /\ JoinReturns(caller[c].t)
  /\ caller' = [caller EXCEPT ![c] = Caller("idle", 0)]
  /\ thread' = 0
  /\ tev' = NoThreadEvent
  /\ UNCHANGED <<running, tpc, cycle_lock>>

\* `while self._running:` of _trading_loop_swing and _trading_loop_intraday;
\* the intraday loop outside a session goes to its own wait.
LoopTop(i) ==
  /\ tpc[i] = "top"
  /\ tpc' = [tpc EXCEPT ![i] = IF ~running THEN "ended"
                               ELSE IF mode = "intraday" /\ ~IsTradingHours(now) THEN "closed_wait"
                               ELSE "try_cycle"]
  /\ tev' = NoThreadEvent
  /\ UNCHANGED <<running, thread, cycle_lock, caller>>

\* _run_one_cycle up to the body: the non-blocking acquire.
TryCycle(i) ==
  /\ tpc[i] = "try_cycle"
  /\ IF Acquire(cycle_lock)
     THEN cycle_lock' = i /\ tpc' = [tpc EXCEPT ![i] = "cycle"] /\ tev' = NoThreadEvent
     ELSE UNCHANGED cycle_lock /\ tpc' = [tpc EXCEPT ![i] = "wait"] /\ tev' = ThreadEvent("skip", i)
  /\ UNCHANGED <<running, thread, caller>>

\* _monitor_stop_levels up to the body, reached from a tick of the wait.
TryMonitor(i) ==
  /\ tpc[i] = "try_monitor"
  /\ IF Acquire(cycle_lock)
     THEN cycle_lock' = i /\ tpc' = [tpc EXCEPT ![i] = "monitor"] /\ tev' = NoThreadEvent
     ELSE UNCHANGED cycle_lock /\ tpc' = [tpc EXCEPT ![i] = "wait"] /\ tev' = ThreadEvent("skip", i)
  /\ UNCHANGED <<running, thread, caller>>

\* _execute inside _do_run_one_cycle or _do_monitor_stop_levels: the thread
\* submits an order.
SubmitOrder(i) ==
  /\ tpc[i] \in {"cycle", "monitor"}
  /\ tev' = ThreadEvent("order", i)
  /\ UNCHANGED <<running, thread, tpc, cycle_lock, caller>>

\* The `finally: self._cycle_lock.release()` of both.
Release(i) ==
  /\ tpc[i] \in {"cycle", "monitor"}
  /\ cycle_lock' = 0
  /\ tpc' = [tpc EXCEPT ![i] = "wait"]
  /\ tev' = NoThreadEvent
  /\ UNCHANGED <<running, thread, caller>>

\* A wait between two cycles that does not look at _running.
WaitDeaf(i) ==
  /\ tpc[i] = "wait"
  /\ \E nxt \in {"top", "try_monitor"} : tpc' = [tpc EXCEPT ![i] = nxt]
  /\ tev' = NoThreadEvent
  /\ UNCHANGED <<running, thread, cycle_lock, caller>>

\* The wait between two cycles: it breaks when _running is False, else it
\* ends, or (positions held) it sleeps 0.5 s and calls the monitor.
Wait(i) ==
  /\ tpc[i] = "wait"
  /\ \E nxt \in (IF running THEN {"top", "try_monitor"} ELSE {"top"}) :
       tpc' = [tpc EXCEPT ![i] = nxt]
  /\ tev' = NoThreadEvent
  /\ UNCHANGED <<running, thread, cycle_lock, caller>>

\* The wait of the intraday loop outside a session: it returns when
\* _running is False, else it ends and the loop continues.
ClosedWait(i) ==
  /\ tpc[i] = "closed_wait"
  /\ IF running
     THEN tpc' = [tpc EXCEPT ![i] = "top"] /\ tev' = NoThreadEvent
     ELSE tpc' = [tpc EXCEPT ![i] = "ended"] /\ tev' = ThreadEvent("return", i)
  /\ UNCHANGED <<running, thread, cycle_lock, caller>>

InitThreads == EngineParked /\ ThreadsConstructed /\ ServiceStarted /\ CodecIdle /\ OrdersConstructed /\ PersistConstructed /\ CallsIdle

NextThreads ==
  \/ \E c \in CallerIds : StartCall(c) /\ UNCHANGED asideThreads
  \/ \E c \in CallerIds : StartAfterJoin(c) /\ UNCHANGED asideThreads
  \/ \E c \in CallerIds : StopCall(c) /\ UNCHANGED asideThreads
  \/ \E c \in CallerIds : StopAfterJoin(c) /\ UNCHANGED asideThreads
  \/ \E i \in ThreadIds : LoopTop(i) /\ UNCHANGED asideThreads
  \/ \E i \in ThreadIds : TryCycle(i) /\ UNCHANGED asideThreads
  \/ \E i \in ThreadIds : TryMonitor(i) /\ UNCHANGED asideThreads
  \/ \E i \in ThreadIds : SubmitOrder(i) /\ UNCHANGED asideThreads
  \/ \E i \in ThreadIds : Release(i) /\ UNCHANGED asideThreads
  \/ \E i \in ThreadIds : Wait(i) /\ UNCHANGED asideThreads

SpecThreads == InitThreads /\ [][NextThreads]_vars

\* The threads in either mode, inside or outside a session, with one
\* request thread that calls start() and stop() one after the other.  A
\* scheduler thread that can take a step of its loop eventually takes one:
\* the threads are scheduled, and the cycle, the monitor pass and every
\* sleep return.
InitStop ==
  /\ mode \in {"swing", "intraday"} /\ now \in {At(20, 55), At(23, 55)} /\ EngineConstructed
  /\ ThreadsConstructed /\ ServiceStarted /\ CodecIdle /\ OrdersConstructed /\ PersistConstructed /\ CallsIdle

LoopStep(i) ==
  (LoopTop(i) \/ TryCycle(i) \/ TryMonitor(i) \/ Release(i) \/ Wait(i) \/ ClosedWait(i)) /\ UNCHANGED asideThreads

NextStop ==
  \/ StartCall(1) /\ UNCHANGED asideThreads
  \/ StopCall(1) /\ UNCHANGED asideThreads
  \/ StopAfterJoin(1) /\ UNCHANGED asideThreads
  \/ \E i \in ThreadIds : LoopStep(i)
  \/ \E i \in ThreadIds : SubmitOrder(i) /\ UNCHANGED asideThreads

SpecStop == InitStop /\ [][NextStop]_vars /\ \A i \in ThreadIds : WF_vars(LoopStep(i))

----------------------------------------------------------------------------
\* The threads of the market-data service.  A caller thread runs start() and
\* stop() one after the other; every thread start() creates runs _run_loop.
\* The broker client a worker creates carries the id of that worker.

\* TqDataService.is_ready
IsReady == ready_event /\ svc_running

WorkerAlive(i) == wpc[i] \notin {"unborn", "ended"}

\* TqDataService.start up to self._ready.wait: returns at once without
\* credentials or when already running; else a new worker thread starts.
ServiceStart ==
  /\ scaller = "idle"
  /\ \E has_credentials \in BOOLEAN :
       IF ~has_credentials \/ svc_running
       THEN UNCHANGED <<svc_running, wpc, scaller>>
       ELSE \E n \in WorkerIds :
              /\ wpc[n] = "unborn" /\ \A m \in WorkerIds : m < n => wpc[m] # "unborn"
              /\ svc_running' = TRUE
              /\ wpc' = [wpc EXCEPT ![n] = "connect"]
              /\ scaller' = "start_wait"
  /\ sev' = NoClientCall
  /\ UNCHANGED <<ready_event, api, raised>>

\* TqDataService.start from `ok = self._ready.wait(timeout=15)` on: the wait
\* returns True when the event is set, False after 15 s without it.
ServiceStartWait ==
  /\ scaller = "start_wait"
  /\ scaller' = "idle"
  /\ svc_running' = IF ready_event THEN svc_running ELSE FALSE
  /\ sev' = NoClientCall
  /\ UNCHANGED <<ready_event, api, wpc, raised>>

\* TqDataService.stop: the caller thread closes the client.
ServiceStop ==
  /\ scaller = "idle"
  /\ svc_running' = FALSE
  /\ sev' = IF api # 0 THEN ClientCall("close", 0, api) ELSE NoClientCall
  /\ ready_event' = FALSE
  /\ UNCHANGED <<api, wpc, scaller, raised>>

\* _run_loop up to the loop: the worker creates the client (TqApi), reads
\* the account and sets the ready event; an exception takes it to the
\* finally block.
Connect(i) ==
  /\ wpc[i] = "connect"
  /\ \E connected \in BOOLEAN :
       IF connected
       THEN /\ api' = i /\ ready_event' = TRUE
            /\ wpc' = [wpc EXCEPT ![i] = "loop"]
            /\ sev' = ClientCall("get_account", i, i)
       ELSE /\ wpc' = [wpc EXCEPT ![i] = "finally"]
            /\ sev' = NoClientCall
            /\ UNCHANGED <<api, ready_event>>
  /\ UNCHANGED <<svc_running, scaller, raised>>

\* `while self._running:`
LoopCheck(i) ==
  /\ wpc[i] = "loop"
  /\ wpc' = [wpc EXCEPT ![i] = IF svc_running THEN "process" ELSE "finally"]
  /\ sev' = NoClientCall
  /\ UNCHANGED <<svc_running, ready_event, api, scaller, raised>>

\* _process_pending and _process_orders: with a request in its queues the
\* worker calls the client self._api names (subscription, insert_order);
\* every call sits in its own try/except.
ProcessRequests(i) ==
  /\ wpc[i] = "process"
  /\ \E pending \in {"none", "get_quote", "insert_order"} :
       sev' = IF pending # "none" /\ api # 0 THEN ClientCall(pending, i, api) ELSE NoClientCall
  /\ wpc' = [wpc EXCEPT ![i] = "wait_update"]
  /\ UNCHANGED <<svc_running, ready_event, api, scaller, raised>>

\* self._api.wait_update(deadline=...) inside its try/except Exception: an
\* exception is logged and the loop goes on.
WaitUpdate(i) ==
  /\ wpc[i] = "wait_update"
  /\ \E raises \in BOOLEAN :
       /\ raised' = IF raises \/ api = 0 THEN raised \cup {i} ELSE raised
       /\ sev' = IF api # 0 THEN ClientCall("wait_update", i, api) ELSE NoClientCall
  /\ wpc' = [wpc EXCEPT ![i] = "loop"]
  /\ UNCHANGED <<svc_running, ready_event, api, scaller>>

\* The finally block of _run_loop.
WorkerFinally(i) ==
  /\ wpc[i] = "finally"
  /\ ready_event' = FALSE
  /\ svc_running' = FALSE
  /\ sev' = IF api # 0 THEN ClientCall("close", i, api) ELSE NoClientCall
  /\ api' = 0
  /\ wpc' = [wpc EXCEPT ![i] = "ended"]
  /\ UNCHANGED <<scaller, raised>>

InitService == EngineParked /\ ThreadsConstructed /\ ServiceConstructed /\ CodecIdle /\ OrdersConstructed /\ PersistConstructed /\ CallsIdle

NextService ==
  \/ ServiceStart /\ UNCHANGED asideService
  \/ ServiceStartWait /\ UNCHANGED asideService
  \/ ServiceStop /\ UNCHANGED asideService
  \/ \E i \in WorkerIds : Connect(i) /\ UNCHANGED asideService
  \/ \E i \in WorkerIds : LoopCheck(i) /\ UNCHANGED asideService
  \/ \E i \in WorkerIds : ProcessRequests(i) /\ UNCHANGED asideService
  \/ \E i \in WorkerIds : WaitUpdate(i) /\ UNCHANGED asideService
  \/ \E i \in WorkerIds : WorkerFinally(i) /\ UNCHANGED asideService

SpecService == InitService /\ [][NextService]_vars

----------------------------------------------------------------------------
\* The round trip of one internal symbol through the codec.

Encode ==
  /\ cpc = "input"
  /\ tq_symbol' = ToTqSymbol(our_symbol)
  /\ cpc' = "encoded"
  /\ UNCHANGED <<our_symbol, back_symbol>>

Decode ==
  /\ cpc = "encoded" /\ tq_symbol # <<>>
  /\ back_symbol' = FromTqSymbol(tq_symbol)
  /\ cpc' = "decoded"
  /\ UNCHANGED <<our_symbol, tq_symbol>>

InitCodec ==
  /\ EngineParked /\ ThreadsConstructed /\ ServiceConstructed /\ OrdersConstructed /\ PersistConstructed /\ CallsIdle
  /\ our_symbol \in InternalSymbols
  /\ tq_symbol = <<>> /\ back_symbol = <<>> /\ cpc = "input"

NextCodec ==
  \/ Encode /\ UNCHANGED asideCodec
  \/ Decode /\ UNCHANGED asideCodec

SpecCodec == InitCodec /\ [][NextCodec]_vars

----------------------------------------------------------------------------
\* The order path of the market-data service.

\* TqDataService.place_order up to its polling loop: the two early ERROR
\* returns, else the request joins the queue.
PlaceOrder ==
  /\ opc = "idle"
  /\ \E ready \in BOOLEAN, symbol \in OrderSymbols, direction \in {"BUY", "SELL"}, price \in OrderPrices :
       LET tq_sym == ToTqSymbol(symbol) IN
         IF ~ready \/ tq_sym = <<>>
         THEN /\ ret' = EarlyError
              /\ UNCHANGED <<pending_orders, opc, polls, cur_oid, next_oid>>
         ELSE /\ next_oid <= MaxOrders
              /\ pending_orders' = Append(pending_orders,
                                           [id |-> next_oid, tq_symbol |-> tq_sym, direction |-> direction,
                                            offset |-> "OPEN", volume |-> 1, price |-> price])
              /\ cur_oid' = next_oid
              /\ next_oid' = next_oid + 1
              /\ opc' = "polling"
              /\ polls' = MaxPolls
              /\ UNCHANGED ret
  /\ UNCHANGED <<order_results, trade_log, trade_log_file>>

\* One iteration of the polling loop of place_order, and the TIMEOUT return
\* after the last one.  A result found is appended to the trade log, the
\* log is saved (the write may fail, its exception is swallowed) and the
\* result is returned.
Poll ==
  /\ opc = "polling"
  /\ IF polls = 0
     THEN /\ ret' = Timeout(cur_oid)
          /\ opc' = "idle" /\ cur_oid' = 0
          /\ UNCHANGED <<trade_log, trade_log_file, polls>>
     ELSE IF cur_oid \in DOMAIN order_results
     THEN /\ ret' = order_results[cur_oid]
          /\ trade_log' = Append(trade_log, order_results[cur_oid])
          /\ \E saved \in BOOLEAN : trade_log_file' = IF saved THEN trade_log' ELSE trade_log_file
          /\ opc' = "idle" /\ cur_oid' = 0
          /\ UNCHANGED polls
     ELSE /\ polls' = polls - 1
          /\ UNCHANGED <<ret, trade_log, trade_log_file, opc, cur_oid>>
  /\ UNCHANGED <<pending_orders, order_results, next_oid>>

\* TqDataService._process_orders in the worker: every queued request is
\* handed to insert_order; its result is SUBMITTED, or ERROR when the call
\* raises.
ProcessOrders ==
  /\ pending_orders # <<>>
  /\ \E outcome \in [1..Len(pending_orders) -> {"SUBMITTED", "ERROR"}] :
       order_results' =
         [id \in DOMAIN order_results \cup {pending_orders[k].id : k \in 1..Len(pending_orders)} |->
            IF \E k \in 1..Len(pending_orders) : pending_orders[k].id = id
            THEN LET k == CHOOSE k \in 1..Len(pending_orders) : pending_orders[k].id = id
                     req == pending_orders[k]
                 IN Result(id, outcome[k], FromTqSymbol(req.tq_symbol), req.direction, req.offset, req.volume, req.price)
            ELSE order_results[id]]
  /\ pending_orders' = <<>>
  /\ UNCHANGED <<trade_log, trade_log_file, opc, polls, cur_oid, next_oid, ret>>

InitOrders == EngineParked /\ ThreadsConstructed /\ ServiceStarted /\ CodecIdle /\ OrdersConstructed /\ PersistConstructed /\ CallsIdle

NextOrders ==
  \/ PlaceOrder /\ UNCHANGED asideOrders
  \/ Poll /\ UNCHANGED asideOrders
  \/ ProcessOrders /\ UNCHANGED asideOrders

SpecOrders == InitOrders /\ [][NextOrders]_vars

----------------------------------------------------------------------------
\* The persistence of the auto-trader.

NotLoaded == [loaded |-> FALSE, contracts |-> <<>>, decisions |-> <<>>, positions |-> NoPositions, trade_log |-> <<>>]

\* AutoTrader._save_state for the lists and positions given: the decisions
\* file, the positions file, then the trade log file.
SaveState(ds, pos, log) ==
  /\ decisions_file' = File("ok", [i \in DOMAIN ds |-> SavedDecision(ds[i])])
  /\ positions_file' = File("ok", [s \in DOMAIN pos |-> AsDict(pos[s])])
  /\ auto_trade_log_file' = DumpTradeLog(log)

\* A cut that keeps the oldest entries.
CutDecisionsOldest(ds) ==
  IF Len(ds) > DECISIONS_MAX THEN SubSeq(ds, 1, DECISIONS_KEEP) ELSE ds

\* The cut of _record: beyond DECISIONS_MAX entries the list becomes its
\* last DECISIONS_KEEP entries.
CutDecisions(ds) ==
  IF Len(ds) > DECISIONS_MAX THEN SubSeq(ds, Len(ds) - DECISIONS_KEEP + 1, Len(ds)) ELSE ds

\* The decisions the engine may record: a HOLD, an entry whose order was
\* SUBMITTED, an entry whose order came back as ERROR, a close whose order
\* timed out.
PersistDecisions ==
  {HoldDecision(At(21, 0), "M2509", 24400, "HOLD", 0, 80, 0, 0),
   [Decision(At(21, 0), "M2509", "BUY", 1, 24400, "BUY", 50, 80, 24280, 24640, 0, 0, 0) EXCEPT !.order_result = "SUBMITTED"],
   [Decision(At(21, 0), "M2509", "SELL", 1, 24400, "STRONG_SELL", -50, 80, 24520, 24160, 0, 0, 0) EXCEPT !.order_result = "ERROR"],
   [Decision(At(21, 5), "M2509", "CLOSE_LONG", 1, 24280, "STOP_LOSS", 0, 80, 24280, 24640, 24400, -120, 300) EXCEPT !.order_result = "TIMEOUT"]}

\* AutoTrader.start / add_contract as far as the contracts go: the list is
\* set and _save_config writes it.
SetContracts ==
  /\ \E cs \in {<<"M2509">>, <<"M2509", "SA605">>} :
       /\ cs # trader_contracts
       /\ trader_contracts' = cs
       /\ config_file' = File("ok", cs)
  /\ fresh' = NotLoaded
  /\ UNCHANGED <<positions, decisions, auto_trade_log, decisions_file, positions_file, auto_trade_log_file, n_records>>

\* AutoTrader._record: the decision joins _decisions (cut to the last
\* DECISIONS_KEEP beyond DECISIONS_MAX), an open or close joins the trade
\* log, and the state is saved.
Record ==
  /\ n_records < MaxRecords
  /\ n_records' = n_records + 1
  /\ \E d \in PersistDecisions :
       LET sd == Stored(d)
           ds == CutDecisions(Append(decisions, sd))
           log == IF d.action # "HOLD" THEN Append(auto_trade_log, TradeLogEntry(sd)) ELSE auto_trade_log
       IN /\ decisions' = ds
          /\ auto_trade_log' = log
          /\ SaveState(ds, positions, log)
  /\ fresh' = NotLoaded
  /\ UNCHANGED <<positions, trader_contracts, config_file>>

\* AutoTrader._create_position_state, which ends with _save_state.
CreateManaged ==
  /\ \E action \in {"BUY", "SELL"}, lots \in {1, 2} :
       LET pos == CreatePositionState(positions, mode, "M2509", action, lots, 24400, 80, now)
       IN /\ pos # positions
          /\ positions' = pos
          /\ SaveState(decisions, pos, auto_trade_log)
  /\ fresh' = NotLoaded
  /\ UNCHANGED <<trader_contracts, decisions, auto_trade_log, config_file, n_records>>

\* AutoTrader.__init__ of a fresh instance: _load_state reads the four
\* files; a missing or unreadable file leaves the field as constructed.
LoadState ==
  /\ ~fresh.loaded
  /\ fresh' = [loaded |-> TRUE,
                contracts |-> IF config_file.state = "ok" THEN config_file.data ELSE <<>>,
                decisions |-> IF decisions_file.state = "ok"
                              THEN [i \in DOMAIN decisions_file.data |-> LoadedDecision(decisions_file.data[i])]
                              ELSE <<>>,
                positions |-> IF positions_file.state = "ok"
                              THEN [s \in DOMAIN positions_file.data |-> FromDict(positions_file.data[s])]
                              ELSE NoPositions,
                trade_log |-> IF auto_trade_log_file.state = "ok" THEN auto_trade_log_file.data ELSE <<>>]
  /\ UNCHANGED <<positions, trader_contracts, decisions, auto_trade_log, config_file, decisions_file, positions_file, auto_trade_log_file, n_records>>

InitPersist == EngineParked /\ ThreadsConstructed /\ ServiceStarted /\ CodecIdle /\ OrdersConstructed /\ PersistConstructed /\ CallsIdle

NextPersist ==
  \/ SetContracts /\ UNCHANGED asidePersist
  \/ Record /\ UNCHANGED asidePersist
  \/ CreateManaged /\ UNCHANGED asidePersist
  \/ LoadState /\ UNCHANGED asidePersist

SpecPersist == InitPersist /\ [][NextPersist]_vars

\* An auto-trader constructed over a decisions file that an earlier run
\* filled almost to the cap: _load_state has read n HOLD decisions, told
\* apart by their timestamps.
LoadedNearCap(n) == [i \in 1..n |-> Stored(HoldDecision(i, "M2509", 24400, "HOLD", 0, 80, 0, 0))]

InitCap ==
  /\ EngineParked /\ ThreadsConstructed /\ ServiceStarted /\ CodecIdle /\ OrdersConstructed
  /\ trader_contracts = <<"M2509">>
  /\ decisions \in {LoadedNearCap(n) : n \in (DECISIONS_MAX - MaxRecords + 1)..DECISIONS_MAX}
  /\ auto_trade_log = <<>>
  /\ config_file = File("ok", trader_contracts)
  /\ decisions_file = File("ok", [i \in DOMAIN decisions |-> SavedDecision(decisions[i])])
  /\ positions_file = File("ok", NoPositions)
  /\ auto_trade_log_file = File("ok", <<>>)
  /\ fresh = NotLoaded
  /\ n_records = 0
  /\ CallsIdle

\* Recordings and restarts of that auto-trader.
NextCap ==
  \/ Record /\ UNCHANGED asidePersist
  \/ LoadState /\ UNCHANGED asidePersist

SpecCap == InitCap /\ [][NextCap]_vars

----------------------------------------------------------------------------
\* The contract list while the auto-trader runs.  Symbols are sequences of
\* characters here, as the calls normalise their argument.

M2509 == <<"M", "2", "5", "0", "9">>
SA605 == <<"S", "A", "6", "0", "5">>
\* The arguments the calls are given.
ContractInputs == {M2509, Lower(M2509), SA605, <<" ">> \o Lower(SA605) \o <<" ">>, <<>>, <<" ">>}

Elements(seq) == {seq[i] : i \in DOMAIN seq}
\* list.remove(x): the list without the first occurrence of x.
ListRemove(seq, x) ==
  LET k == CHOOSE i \in DOMAIN seq : seq[i] = x /\ \A j \in 1..(i - 1) : seq[j] # x
  IN SubSeq(seq, 1, k - 1) \o SubSeq(seq, k + 1, Len(seq))

\* AutoTrader.add_contract: the outcome and the fields after the call;
\* saved tells whether _save_config ran.
AddContractResult(cs, symbol) ==
  LET sym == Upper(Strip(symbol)) IN
    IF sym = <<>> THEN [ok |-> FALSE, sym |-> sym, contracts |-> cs, saved |-> FALSE]
    ELSE IF sym \in Elements(cs) THEN [ok |-> FALSE, sym |-> sym, contracts |-> cs, saved |-> FALSE]
    ELSE [ok |-> TRUE, sym |-> sym, contracts |-> Append(cs, sym), saved |-> TRUE]

\* A remove_contract that does not look at the managed positions.
RemoveContractUnchecked(cs, pos, bias, symbol) ==
  LET sym == Upper(Strip(symbol)) IN
    IF sym \notin Elements(cs) THEN [ok |-> FALSE, sym |-> sym, contracts |-> cs, ai_bias |-> bias, saved |-> FALSE]
    ELSE [ok |-> TRUE, sym |-> sym, contracts |-> ListRemove(cs, sym), ai_bias |-> Pop(bias, sym), saved |-> TRUE]

\* AutoTrader.remove_contract: the outcome and the fields after the call.
RemoveContractResult(cs, pos, bias, symbol) ==
  LET sym == Upper(Strip(symbol)) IN
    IF sym \notin Elements(cs) THEN [ok |-> FALSE, sym |-> sym, contracts |-> cs, ai_bias |-> bias, saved |-> FALSE]
    ELSE IF Has(pos, sym) THEN [ok |-> FALSE, sym |-> sym, contracts |-> cs, ai_bias |-> bias, saved |-> FALSE]
    ELSE [ok |-> TRUE, sym |-> sym, contracts |-> ListRemove(cs, sym), ai_bias |-> Pop(bias, sym), saved |-> TRUE]

AddContract ==
  /\ \E symbol \in ContractInputs :
       LET r == AddContractResult(trader_contracts, symbol)
       IN /\ trader_contracts' = r.contracts
          /\ config_file' = IF r.saved THEN File("ok", r.contracts) ELSE config_file
          /\ last_call' = ContractCall("add", symbol, r.sym, r.ok)
  /\ UNCHANGED <<positions, ai_bias>>

RemoveContract ==
  /\ \E symbol \in ContractInputs :
       LET r == RemoveContractResult(trader_contracts, positions, ai_bias, symbol)
       IN /\ trader_contracts' = r.contracts
          /\ ai_bias' = r.ai_bias
          /\ config_file' = IF r.saved THEN File("ok", r.contracts) ELSE config_file
          /\ last_call' = ContractCall("remove", symbol, r.sym, r.ok)
  /\ UNCHANGED positions

\* The scheduler between two calls: an entry on a contract of the list
\* creates its managed position.
OpenManaged ==
  /\ \E s \in Elements(trader_contracts), action \in {"BUY", "SELL"} :
       /\ ~Has(positions, s)
       /\ positions' = CreatePositionState(positions, mode, s, action, 1, 24400, 80, now)
  /\ last_call' = NoContractCall
  /\ UNCHANGED <<trader_contracts, ai_bias, config_file>>

\* The scheduler between two calls: an exit drops a managed position.
CloseManaged ==
  /\ \E s \in DOMAIN positions : positions' = Pop(positions, s)
  /\ last_call' = NoContractCall
  /\ UNCHANGED <<trader_contracts, ai_bias, config_file>>

\* The scheduler between two calls: _update_ai_bias stores the bias of a
\* contract of the list.
StoreBias ==
  /\ \E s \in Elements(trader_contracts), b \in {"LONG_BIAS", "NEUTRAL"} :
       /\ (Has(ai_bias, s) => ai_bias[s] # b)
       /\ ai_bias' = Put(ai_bias, s, b)
  /\ last_call' = NoContractCall
  /\ UNCHANGED <<trader_contracts, positions, config_file>>

\* After start() with one contract.
InitContracts ==
  /\ EngineParked /\ ThreadsStarted /\ ServiceStarted /\ CodecIdle /\ OrdersConstructed
  /\ trader_contracts = <<M2509>>
  /\ decisions = <<>>
  /\ auto_trade_log = <<>>
  /\ config_file = File("ok", trader_contracts)
  /\ decisions_file = MissingFile
  /\ positions_file = MissingFile
  /\ auto_trade_log_file = MissingFile
  /\ fresh = NotLoaded
  /\ n_records = 0
  /\ CallsIdle

NextContracts ==
  \/ AddContract /\ UNCHANGED asideContracts
  \/ RemoveContract /\ UNCHANGED asideContracts
  \/ OpenManaged /\ UNCHANGED asideContracts
  \/ CloseManaged /\ UNCHANGED asideContracts
  \/ StoreBias /\ UNCHANGED asideContracts

SpecContracts == InitContracts /\ [][NextContracts]_vars

----------------------------------------------------------------------------
\* The exit check on a feed of prices: a position entered at 2450.0 with an
\* ATR of 10.0, in either direction and mode, is checked at one price after
\* the other until a check closes it.  The broker reports one lot, on the
\* leg of the position or on the opposite leg.
MaxFeed == 4
FeedSymbol == "C2605"
FeedPrices == {24500, 24530, 24560, 24620, 24379, 24700, 24290}
FeedLegs == {<<1, 0>>, <<0, 1>>}
Fed(price, long_vol, short_vol) == [price |-> price, long_vol |-> long_vol, short_vol |-> short_vol]

\* One call of _check_exit by the cycle or the monitor, which drops the
\* managed position when the call returns a close decision.
FeedPrice ==
  /\ Len(fed) < MaxFeed /\ Has(positions, FeedSymbol)
  /\ \E price \in FeedPrices, leg \in FeedLegs :
       LET x == CheckExit(positions, mode, FeedSymbol, price, positions[FeedSymbol].atr, leg[1], leg[2], now)
       IN /\ fed' = Append(fed, Fed(price, leg[1], leg[2]))
          /\ checked' = x
          /\ positions' = IF x.decision.action \in {"CLOSE_LONG", "CLOSE_SHORT"} THEN Pop(x.positions, FeedSymbol) ELSE x.positions

InitFeed ==
  /\ mode \in {"swing", "intraday"} /\ now = At(21, 0)
  /\ elapsed = 0 /\ svc_ready = TRUE /\ broker = [s \in Symbols |-> BrokerFlat]
  /\ \E action \in {"BUY", "SELL"} :
       positions = CreatePositionState(NoPositions, mode, FeedSymbol, action, 1, 24500, 100, now)
  /\ daily_pnl = 0 /\ daily_loss_count = 0 /\ pause_until = 0 /\ last_trade_date = -1
  /\ ai_bias = NoPositions /\ ai_bias_updated = 0 /\ was_trading = TRUE /\ pc = "monitor"
  /\ todo = <<>> /\ gate_time = 0 /\ n_exits = 0 /\ pause_deadline = 0 /\ ev = NoEvent
  /\ ThreadsStarted /\ ServiceStarted /\ CodecIdle /\ OrdersConstructed /\ PersistConstructed /\ CallsIdle

NextFeed == FeedPrice /\ UNCHANGED asideFeed

SpecFeed == InitFeed /\ [][NextFeed]_vars

----------------------------------------------------------------------------
\* Properties of the engine.

IsClose(d) == d.action \in {"CLOSE_LONG", "CLOSE_SHORT"}
Flat(bp) == bp.long_volume = 0 /\ bp.short_volume = 0
\* The trading sessions [09:00,11:30), [13:30,15:00), [21:00,24:00), [00:00,02:30).
InSession(t) ==
  LET m == MinuteOfDay(t) IN
    \/ (540 <= m /\ m < 690)
    \/ (810 <= m /\ m < 900)
    \/ (1260 <= m /\ m < 1440)
    \/ (0 <= m /\ m < 150)

\* C1: between its creation and its removal, across exit checks of the cycle
\* and of the monitor, the stop_loss of a managed LONG position never
\* decreases and the stop_loss of a managed SHORT position never increases.
C1_StopLossMonotone ==
  [][\A s \in Symbols :
       (Has(positions, s) /\ Has(positions', s) /\ ~Has(ev'.created, s))
         => IF positions[s].direction = "LONG"
            THEN positions'[s].stop_loss >= positions[s].stop_loss
            ELSE positions'[s].stop_loss <= positions[s].stop_loss]_vars

\* C1, its case: a LONG position whose stop was ratcheted above its initial
\* value has then been held by a cycle at a price below its high.
C1_RatchetedThenHeld ==
  \E s \in Symbols :
    /\ Has(positions, s) /\ positions[s].direction = "LONG"
    /\ positions[s].stop_loss > positions[s].entry_price - ((IF mode = "intraday" THEN INTRADAY_SL_MULT ELSE ATR_SL_MULTIPLIER) * positions[s].atr) \div 100
    /\ ev.kind = "analyze"
    /\ \E i \in DOMAIN ev.decisions :
         ev.decisions[i].action = "HOLD" /\ ev.decisions[i].symbol = s
         /\ ev.decisions[i].price < positions[s].highest_since_entry

\* C2 as stated: no close decision is emitted for a managed position at a
\* price that has not crossed its initial stop-loss (every earlier exit
\* check of a position still managed has left it open, so none of its
\* prices had reached the stop either).
C2_NoExitInsideInitialStop == ev.false_exits = {}

\* C2, amended: a close decision is emitted only by an exit check whose
\* price has reached the position's current stop-loss (the initial stop as
\* raised by the trailing ratchet of that check) or its take-profit, or by
\* the forced close of the monitor in [14:55, 15:00); and a managed position
\* is removed only by such a close or when the broker reports no volume.
C2_ExitOnlyAtLevels ==
  /\ \A i \in DOMAIN ev.decisions :
       LET d == ev.decisions[i] IN
         IsClose(d) =>
           \/ d.signal = "STOP_LOSS"
              /\ (IF d.action = "CLOSE_LONG" THEN d.price <= d.stop_loss ELSE d.price >= d.stop_loss)
           \/ d.signal = "TAKE_PROFIT"
              /\ (IF d.action = "CLOSE_LONG" THEN d.price >= d.take_profit ELSE d.price <= d.take_profit)
           \/ d.signal = "MARKET_CLOSE" /\ ev.kind = "monitor"
              /\ 895 <= MinuteOfDay(d.timestamp) /\ MinuteOfDay(d.timestamp) < 900
  /\ \A s \in ev.removed :
       \/ \E i \in DOMAIN ev.decisions : IsClose(ev.decisions[i]) /\ ev.decisions[i].symbol = s
       \/ Flat(PositionInfo(svc_ready, broker[s]))

\* C2, its case: a cycle has checked a LONG position at a price above its
\* entry, strictly between its stop-loss and its take-profit, and the
\* position is still managed.
C2_HeldBetweenLevels ==
  \E i \in DOMAIN ev.decisions :
    LET d == ev.decisions[i] IN
      /\ d.action = "HOLD" /\ Has(positions, d.symbol)
      /\ positions[d.symbol].direction = "LONG"
      /\ d.stop_loss = positions[d.symbol].stop_loss
      /\ d.stop_loss < d.price /\ d.price < d.take_profit
      /\ d.price > positions[d.symbol].entry_price

\* C3 as stated: every order is submitted at a time inside a trading session.
C3_OrdersInsideSession == \A o \in ev.orders : InSession(o.time)

\* C4 as stated: once the losing streak has set the pause deadline, no entry
\* order is emitted at any time up to that deadline.
C4_NoEntryBeforePauseDeadline ==
  \A o \in ev.orders : o.offset = "OPEN" => o.time > pause_deadline

\* C5 as stated: after an entry step whose order came back ERROR or TIMEOUT
\* no managed position exists for the symbol.
C5_NoPositionAfterFailedEntry ==
  \A o \in ev.orders :
    (o.offset = "OPEN" /\ o.status \in {"ERROR", "TIMEOUT"}) => ~Has(positions, o.symbol)

\* C6 as stated: the managed position is kept by the step that emits its
\* exit decision, and a managed position is never removed while the broker
\* still reports volume for the symbol.
C6_KeptUntilBrokerFlat ==
  /\ \A i \in DOMAIN ev.decisions : IsClose(ev.decisions[i]) => Has(positions, ev.decisions[i].symbol)
  /\ \A s \in ev.removed : Flat(broker[s])

\* C7: a cycle that finds zero long and zero short broker volume for a
\* symbol with a managed position removes that position, also when it
\* returns at its quote/ATR check.
C7_StaleDroppedInCycle ==
  [][\A s \in Symbols :
       (/\ ev'.kind = "analyze" /\ todo # <<>> /\ Head(todo) = s
        /\ Has(positions, s)
        /\ Flat(PositionInfo(svc_ready, broker[s])))
         => s \in ev'.removed /\ (Has(positions', s) => Has(ev'.created, s))]_vars

\* C7, its case: a cycle without quote or ATR has removed a managed position.
C7_DroppedWithoutMarketData == ev.kind = "analyze" /\ ev.skipped /\ ev.removed # {}

C9_NeverOverwritten == ev.overwrote = FALSE

\* C9, its case: a position has been created in a step that started with a
\* managed position for the same symbol (the stale one was dropped first).
C9_CreatedAfterDrop ==
  \E s \in DOMAIN ev.created : s \in ev.removed /\ Has(positions, s)

\* C10: every managed LONG position has highest_since_entry >= entry_price
\* and every managed SHORT position has lowest_since_entry <= entry_price.
C10_ExtremesBoundEntry ==
  \A s \in DOMAIN positions :
    IF positions[s].direction = "LONG"
    THEN positions[s].highest_since_entry >= positions[s].entry_price
    ELSE positions[s].lowest_since_entry <= positions[s].entry_price

\* C10, its case: the monitor has moved the low of a SHORT position below
\* its entry price.
C10_ShortLowMoved ==
  /\ ev.kind = "monitor"
  /\ \E s \in DOMAIN positions :
       positions[s].direction = "SHORT" /\ positions[s].lowest_since_entry < positions[s].entry_price

\* Whether a signal and its score pass the entry threshold of _check_entry.
PassesThreshold(d) ==
  \/ d.signal \in {"STRONG_BUY", "BUY"} /\ d.composite_score >= signal_threshold
  \/ d.signal \in {"STRONG_SELL", "SELL"} /\ d.composite_score <= 0 - signal_threshold

\* C11: when the account reports a risk ratio at or above max_risk_ratio, a
\* BUY or SELL signal whose score passes the threshold gives a HOLD decision
\* whose reason names the risk ratio; the step places no order and creates
\* no managed position.
C11_RiskRatioHolds ==
  (ev.entry.checked /\ ev.entry.risk_ratio_high /\ Len(ev.decisions) > 0
     /\ PassesThreshold(ev.decisions[Len(ev.decisions)]))
  => /\ ev.decisions[Len(ev.decisions)].action = "HOLD"
     /\ ev.decisions[Len(ev.decisions)].reason = "risk_ratio"
     /\ ev.orders = {}
     /\ DOMAIN ev.created = {}

\* C11 witness: a passing SELL signal held back by the risk ratio.
C11_SellHeldByRiskRatio ==
  /\ ev.entry.checked /\ ev.entry.risk_ratio_high
  /\ Len(ev.decisions) = 1
  /\ ev.decisions[1].signal \in {"STRONG_SELL", "SELL"}
  /\ PassesThreshold(ev.decisions[1])
  /\ ev.decisions[1].action = "HOLD" /\ ev.decisions[1].reason = "risk_ratio"
  /\ ev.orders = {}

\* The stored AI bias of a symbol as _intraday_entry reads it.
StoredBias(s) == IF Has(ai_bias, s) THEN ai_bias[s] ELSE "NEUTRAL"

\* C12: in intraday mode an open order goes out for a local BUY only when the
\* 30-min trend is +1, the ADX is at least INTRADAY_ADX_MIN and the stored bias
\* is not SHORT_BIAS, and for a local SELL only when the trend is -1, the ADX
\* is at least INTRADAY_ADX_MIN and the stored bias is not LONG_BIAS; a cycle
\* step on a flat account creates a managed position only with such an order.
C12_IntradayFilters ==
  mode = "intraday" =>
    /\ \A o \in ev.orders : o.offset = "OPEN" =>
          /\ ev.entry.checked
          /\ ev.entry.signal = o.direction
          /\ ev.entry.htf = (IF o.direction = "BUY" THEN 1 ELSE -1)
          /\ ev.entry.adx >= INTRADAY_ADX_MIN
          /\ ev.entry.bias = StoredBias(o.symbol)
          /\ StoredBias(o.symbol) # (IF o.direction = "BUY" THEN "SHORT_BIAS" ELSE "LONG_BIAS")
    /\ \A s \in DOMAIN ev.created :
          (ev.kind = "analyze" /\ Flat(PositionInfo(svc_ready, broker[s])))
          => \E o \in ev.orders : o.symbol = s /\ o.offset = "OPEN" /\ o.status # "ERROR"

\* C12 witness: a local SELL passed the three filters under a NEUTRAL bias
\* and its open order was submitted.
C12_SellUnderNeutralBias ==
  /\ mode = "intraday" /\ ev.entry.checked
  /\ ev.entry.signal = "SELL" /\ ev.entry.htf = -1 /\ ev.entry.adx >= INTRADAY_ADX_MIN
  /\ ev.entry.bias = "NEUTRAL"
  /\ \E o \in ev.orders : o.offset = "OPEN" /\ o.direction = "SELL" /\ o.status = "SUBMITTED"
  /\ DOMAIN ev.created # {}

\* The threads inside _do_run_one_cycle or _do_monitor_stop_levels.
InCycle == {i \in ThreadIds : tpc[i] \in {"cycle", "monitor"}}

\* C13: at most one thread is inside the analysis cycle or the SL/TP monitor,
\* it is the holder of the cycle lock, and a thread at the acquire of either
\* always has its next step, whoever holds the lock.
C13_OneCycleAtATime ==
  /\ Cardinality(InCycle) <= 1
  /\ \A i \in InCycle : cycle_lock = i
  /\ \A i \in ThreadIds :
       /\ tpc[i] = "try_cycle" => ENABLED TryCycle(i)
       /\ tpc[i] = "try_monitor" => ENABLED TryMonitor(i)
       /\ (tev = ThreadEvent("skip", i)) => (tpc[i] = "wait" /\ cycle_lock \notin {0, i})

\* C13 witness: an old thread that outlived the join holds the lock inside
\* its cycle while the thread of the latest start() has just skipped a tick
\* on the busy lock.
C13_SkippedOnBusyLock ==
  \E i, j \in ThreadIds :
    /\ i # j /\ thread = j /\ running
    /\ tpc[i] \in {"cycle", "monitor"} /\ cycle_lock = i
    /\ tev = ThreadEvent("skip", j)

\* The threads that run the trading loop.
LoopThreads == {i \in ThreadIds : IsAlive(i)}

\* C14: at most one thread runs the trading loop, and the thread that
\* submits an order is the one of the latest start().
C14_OneLoopThread ==
  /\ Cardinality(LoopThreads) <= 1
  /\ tev.kind = "order" => tev.thread = thread

\* C15: at most one worker thread is alive, and every call into a broker
\* client is made by the worker that created the client, never by the caller
\* thread or by another worker.
C15_ClientOwnedByWorker ==
  /\ Cardinality({i \in WorkerIds : WorkerAlive(i)}) <= 1
  /\ sev.kind # "none" => (sev.by # 0 /\ sev.by = sev.client)

\* C16: a worker whose wait_update has raised is in its finally block or has
\* ended, and the service is not ready while such a worker is alive.
C16_RaiseEndsWorker ==
  \A i \in raised :
    /\ wpc[i] \in {"finally", "ended"}
    /\ WorkerAlive(i) => ~IsReady

\* C17: a step of the cycle or of the monitor taken while the service is not
\* ready places no order, records no decision and neither creates nor removes
\* a managed position.
C17_NotReadyChangesNothing ==
  (~svc_ready /\ ev.kind \in {"analyze", "monitor"})
  => /\ ev.orders = {}
     /\ ev.decisions = <<>>
     /\ DOMAIN ev.created = {}
     /\ ev.removed = {}

\* The base and the digits of an internal symbol.
BaseOf(s) == SubSeq(s, 1, LetterPrefix(s))
DigitsOf(s) == SubSeq(s, LetterPrefix(s) + 1, Len(s))

\* C19 as stated: every internal symbol comes back from the round trip.
C19_RoundTrip ==
  cpc = "decoded" => back_symbol = our_symbol

\* C19: an internal symbol of a known exchange comes back from the round
\* trip exactly when its exchange is not CZCE or its digits are four with a
\* leading 2; a CZCE symbol comes back as base, 2 and its last three digits.
C19_RoundTripButDecade ==
  cpc = "decoded" =>
    LET d == DigitsOf(our_symbol) IN
      /\ (back_symbol = our_symbol) <=> (ExchangeOf(BaseOf(our_symbol)) # CZCE \/ (Len(d) = 4 /\ d[1] = "2"))
      /\ ExchangeOf(BaseOf(our_symbol)) = CZCE
           => back_symbol = BaseOf(our_symbol) \o <<"2">> \o SubSeq(d, Len(d) - 2, Len(d))

\* C19 witness: SA2603 went to CZCE.SA603 and came back as SA2603.
C19_CzceBack ==
  /\ cpc = "decoded"
  /\ our_symbol = <<"S", "A", "2", "6", "0", "3">>
  /\ tq_symbol = <<"C", "Z", "C", "E", ".", "S", "A", "6", "0", "3">>
  /\ back_symbol = our_symbol

\* C18: the result a place_order call has returned has status SUBMITTED,
\* ERROR or TIMEOUT, and unless it is a TIMEOUT it is in the trade log.
C18_NonTimeoutLogged ==
  (opc = "idle" /\ ret # NoResult)
  => /\ ret.status \in {"SUBMITTED", "ERROR", "TIMEOUT"}
     /\ ret.status # "TIMEOUT" => \E i \in DOMAIN trade_log : trade_log[i] = ret

\* C20: a fresh instance that has loaded the saved state has the contracts,
\* as many decisions, every managed position with every field, and every
\* trade-log entry of the instance that saved it.
C20_SaveLoadPreserves ==
  fresh.loaded =>
    /\ fresh.contracts = trader_contracts
    /\ Len(fresh.decisions) = Len(decisions)
    /\ fresh.positions = positions
    /\ Len(fresh.trade_log) = Len(auto_trade_log)
    /\ \A i \in DOMAIN auto_trade_log :
         i \in DOMAIN fresh.trade_log /\ fresh.trade_log[i].timestamp = auto_trade_log[i].timestamp
           /\ fresh.trade_log[i].action = auto_trade_log[i].action
           /\ fresh.trade_log[i].order_result.status = auto_trade_log[i].order_result.status

\* C21: after every recording of a decision the decision list holds at most
\* DECISIONS_MAX entries; an append that makes it exceed DECISIONS_MAX leaves
\* exactly the DECISIONS_KEEP most recent entries in their order, the new
\* decision last, and the decisions file written by the recording holds the
\* list after the cut.
C21_DecisionsCapped ==
  [][n_records' # n_records =>
       /\ Len(decisions') <= DECISIONS_MAX
       /\ IF Len(decisions) + 1 > DECISIONS_MAX
          THEN /\ Len(decisions') = DECISIONS_KEEP
               /\ \A i \in 1..(DECISIONS_KEEP - 1) :
                    decisions'[i] = decisions[Len(decisions) + 1 - DECISIONS_KEEP + i]
               /\ decisions'[DECISIONS_KEEP] \in {Stored(d) : d \in PersistDecisions}
          ELSE /\ Len(decisions') = Len(decisions) + 1
               /\ SubSeq(decisions', 1, Len(decisions)) = decisions
       /\ decisions_file'.state = "ok"
       /\ Len(decisions_file'.data) = Len(decisions')
       /\ \A i \in DOMAIN decisions' : decisions_file'.data[i].timestamp = decisions'[i].timestamp]_vars

\* C21 witness: a recording has cut the list; it holds the DECISIONS_KEEP
\* most recent entries, the oldest of them one that was loaded.
C21_CutHappened ==
  /\ n_records > 0
  /\ Len(decisions) = DECISIONS_KEEP
  /\ decisions[1].timestamp = DECISIONS_MAX + 1 - DECISIONS_KEEP + 1

\* C22: remove_contract for a symbol that has a managed position returns
\* failure and leaves the contract list, the AI bias map and the saved
\* config as they were; no call takes a symbol that has a managed position
\* out of the contract list, so every managed position stays on the list.
C22_HeldContractStays ==
  [][/\ (last_call'.op = "remove" /\ Has(positions, last_call'.sym)) =>
          (~last_call'.ok /\ trader_contracts' = trader_contracts /\ ai_bias' = ai_bias /\ config_file' = config_file)
     /\ \A s \in Elements(trader_contracts) \ Elements(trader_contracts') : ~Has(positions, s) /\ ~Has(positions', s)
     /\ DOMAIN positions' \subseteq Elements(trader_contracts')]_vars

\* C22 witness: a remove_contract, given the held symbol in lower case, has
\* failed while the list holds a second contract and the symbol has a bias.
C22_RemoveRefused ==
  /\ last_call.op = "remove" /\ ~last_call.ok /\ last_call.symbol = Lower(M2509)
  /\ Has(positions, M2509) /\ Has(ai_bias, M2509)
  /\ trader_contracts = <<M2509, SA605>>

\* C23: when _running stays False from some point on (stop() with no later
\* start()), every scheduler thread eventually has left its loop and
\* stays ended.
C23_StopEndsLoop ==
  (<>[](~running)) => <>[](\A i \in ThreadIds : ~IsAlive(i))

\* C23 witness: after stop() the thread of the intraday loop, waiting
\* outside a session, has seen _running False and returned; no thread is
\* left alive.
C23_ReturnedAfterStop ==
  /\ ~running /\ mode = "intraday" /\ ~IsTradingHours(now)
  /\ tev.kind = "return"
  /\ \A i \in ThreadIds : ~IsAlive(i)

\* The calls of scenario S1 up to its n-th price, the broker reporting the
\* long leg.
S1Feed(n) == SubSeq(<<Fed(24500, 1, 0), Fed(24530, 1, 0), Fed(24560, 1, 0), Fed(24620, 1, 0)>>, 1, n)
\* The position of S1 is the one fed: LONG, intraday parameters.
S1Position ==
  /\ mode = "intraday" /\ Has(positions, FeedSymbol)
  /\ positions[FeedSymbol].direction = "LONG"
  /\ positions[FeedSymbol].entry_price = 24500 /\ positions[FeedSymbol].atr = 100

\* C24 as stated: in S1 the stop-loss is 2438.0 after 2453, 2439.5 after
\* 2456 and 2442.5 after 2462.
C24_S1AsStated ==
  S1Position =>
    /\ (fed = S1Feed(2) => positions[FeedSymbol].stop_loss = 24380)
    /\ (fed = S1Feed(3) => positions[FeedSymbol].stop_loss = 24395)
    /\ (fed = S1Feed(4) => positions[FeedSymbol].stop_loss = 24425)

\* C24, amended: in S1 the stop-loss starts at 2438.0 and stays there after
\* 2450; the rise of 3 to 2453 is one whole step and sets it to 2439.5,
\* 2456 sets it to 2441.0 and 2462 (two steps) to 2444.0.
C24_S1Ratchet ==
  S1Position =>
    /\ (fed \in {S1Feed(0), S1Feed(1)} => positions[FeedSymbol].stop_loss = 24380)
    /\ (fed = S1Feed(2) => positions[FeedSymbol].stop_loss = 24395)
    /\ (fed = S1Feed(3) => positions[FeedSymbol].stop_loss = 24410)
    /\ (fed = S1Feed(4) => positions[FeedSymbol].stop_loss = 24440)

\* C24 witness: S1 has been fed to its last price and the position is held
\* with its high at 2462.
C24_S1Fed ==
  S1Position /\ fed = S1Feed(4) /\ positions[FeedSymbol].highest_since_entry = 24620

\* The last call of the exit check: its inputs, the position after its
\* trailing update, the decision it returned.
LastFed == fed[Len(fed)]
LastChecked == checked.positions[FeedSymbol]
AtLevel(ps, price) ==
  IF ps.direction = "LONG" THEN price <= ps.stop_loss \/ price >= ps.take_profit
  ELSE price >= ps.stop_loss \/ price <= ps.take_profit
\* What a close decision of the exit check carries.
CloseCarries(d, ps, price) ==
  /\ d.price = price /\ d.entry_price = ps.entry_price
  /\ d.pnl_points = (IF ps.direction = "LONG" THEN price - ps.entry_price ELSE ps.entry_price - price)
  /\ d.signal \in {"STOP_LOSS", "TAKE_PROFIT"}
  /\ (ps.direction = "LONG" /\ price = 24379 /\ ps.entry_price = 24500) => d.pnl_points = -121
  /\ (ps.direction = "SHORT" /\ price = 24290 /\ ps.entry_price = 24500) => d.pnl_points = 210

\* C25 as stated: the exit check returns CLOSE_LONG for a managed LONG
\* position exactly when the price is at or below its stop-loss or at or
\* above its take-profit, CLOSE_SHORT for a managed SHORT position exactly
\* when the price is at or above its stop-loss or at or below its
\* take-profit, with pnl_points exit - entry (LONG) or entry - exit (SHORT),
\* and returns no decision otherwise.
C25_ExitExactlyAtLevels ==
  fed # <<>> =>
    LET ps == LastChecked
        d == checked.decision
    IN /\ d.action \in {"NONE", IF ps.direction = "LONG" THEN "CLOSE_LONG" ELSE "CLOSE_SHORT"}
       /\ (d.action # "NONE") <=> AtLevel(ps, LastFed.price)
       /\ (d.action # "NONE") => CloseCarries(d, ps, LastFed.price)

\* C25, amended: the same for a managed position whose broker leg in its
\* direction has volume; the exit check of a position whose broker leg is
\* empty returns no decision at any price.
C25_ExitAtLevelsOfLiveLeg ==
  fed # <<>> =>
    LET ps == LastChecked
        d == checked.decision
        live == IF ps.direction = "LONG" THEN LastFed.long_vol > 0 ELSE LastFed.short_vol > 0
    IN /\ d.action \in {"NONE", IF ps.direction = "LONG" THEN "CLOSE_LONG" ELSE "CLOSE_SHORT"}
       /\ (d.action # "NONE") <=> (live /\ AtLevel(ps, LastFed.price))
       /\ (d.action # "NONE") => CloseCarries(d, ps, LastFed.price)
       /\ (d.action # "NONE") => d.lots = (IF ps.direction = "LONG" THEN LastFed.long_vol ELSE LastFed.short_vol)

\* C25 witness: scenario S3, a SHORT position entered at 2450 is closed at
\* 2429 with TAKE_PROFIT and 21 points, after it was held at 2456.
C25_S3Closed ==
  /\ Len(fed) >= 2 /\ fed[Len(fed) - 1].price = 24560
  /\ LastFed = Fed(24290, 0, 1)
  /\ checked.decision.action = "CLOSE_SHORT" /\ checked.decision.signal = "TAKE_PROFIT"
  /\ checked.decision.pnl_points = 210
  /\ ~Has(positions, FeedSymbol)

\* C26 as stated: in [14:55, 15:00) with close_before_market_close set, the
\* monitor emits for every managed position whose broker volume is
\* non-zero a close order at market, that is without a limit price.
C26_ForcedCloseAtMarket ==
  (ev.kind = "monitor" /\ close_before_market_close) =>
    \A i \in DOMAIN ev.decisions :
      LET d == ev.decisions[i] IN
        d.signal = "MARKET_CLOSE" =>
          \E o \in ev.orders :
            /\ o.symbol = d.symbol /\ o.offset = "CLOSE" /\ o.volume = d.lots
            /\ ~IsLimitOrder(o)

----------------------------------------------------------------------------
\* The intraday engine around the edges of the day session and in the
\* closed hours: the loop is entered five minutes before 13:30, 14:00,
\* 14:30, 03:00 and 06:00.
SessionStarts == {At(13, 25), At(13, 55), At(14, 25), At(2, 55), At(5, 55)}

InitSession ==
  /\ mode = "intraday"
  /\ now \in SessionStarts
  /\ EngineConstructed
  /\ ThreadsStarted /\ ServiceStarted /\ CodecIdle /\ OrdersConstructed /\ PersistConstructed /\ CallsIdle

NextSession ==
  \/ LoopIntraday /\ UNCHANGED rest
  \/ AnalyzeAndTrade(MaxExits) /\ UNCHANGED rest
  \/ MonitorStopLevels(MaxExits) /\ UNCHANGED rest
  \/ EndWait /\ UNCHANGED rest
  \/ Tick /\ UNCHANGED rest
  \/ BrokerUpdate /\ UNCHANGED rest
  \/ ServiceChange /\ UNCHANGED rest

SpecSession == InitSession /\ [][NextSession]_vars

\* The instants at which _check_intraday_risk refuses on the clock alone.
InNoEntryWindow(t) ==
  \/ (14 * 60 + 30 <= MinuteOfDay(t) /\ MinuteOfDay(t) < 15 * 60)
  \/ HourOfDay(t) \in {3, 6, 13}

\* The step analysed a symbol the broker reports flat and got past the
\* quote and ATR check: it reached the entry path.
ReachedEntry ==
  /\ ev.kind = "analyze" /\ ~ev.skipped
  /\ \A s \in Symbols : PositionInfo(svc_ready, broker[s]) = BrokerFlat

----------------------------------------------------------------------------
\* The intraday engine with the money its closes realize.  A close of lots
\* lots at pnl_points points realizes pnl_points * lots * volume_multiple.
\* quote.volume_multiple of the contract of the model.
VolumeMultiple == 10

RECURSIVE ClosedPnl(_)
ClosedPnl(ds) ==
  IF ds = <<>> THEN 0
  ELSE (IF Head(ds).action \in {"CLOSE_LONG", "CLOSE_SHORT"}
        THEN Head(ds).pnl_points * Head(ds).lots * VolumeMultiple ELSE 0) + ClosedPnl(Tail(ds))

\* The realized money follows the step: back to 0 when _reset_daily_state
\* starts a new day, plus what the closes of the step realized.
TrackRealized ==
  realized_pnl' = (IF last_trade_date' # last_trade_date THEN 0 ELSE realized_pnl) + ClosedPnl(ev'.decisions)

NextDaily ==
  \/ LoopIntraday /\ TrackRealized /\ UNCHANGED restButRealized
  \/ AnalyzeAndTrade(MaxExits) /\ TrackRealized /\ UNCHANGED restButRealized
  \/ MonitorStopLevels(MaxExits) /\ TrackRealized /\ UNCHANGED restButRealized
  \/ EndWait /\ TrackRealized /\ UNCHANGED restButRealized
  \/ Tick /\ TrackRealized /\ UNCHANGED restButRealized
  \/ BrokerUpdate /\ TrackRealized /\ UNCHANGED restButRealized
  \/ ServiceChange /\ TrackRealized /\ UNCHANGED restButRealized

SpecDaily == InitStreak /\ [][NextDaily]_vars

\* The step emitted an opening order.
EntryEmitted == ev.kind = "analyze" /\ \E o \in ev.orders : o.offset = "OPEN"

\* C28 as stated: in intraday mode no entry is emitted when the money
\* realized by the closes since the last daily reset is negative and its
\* size is at least max_daily_loss (3%) of the equity the step read.
C28_DailyLossCap ==
  (mode = "intraday" /\ EntryEmitted /\ ev.entry.equity > 0) =>
    ~(realized_pnl < 0 /\ (0 - realized_pnl) * 100 >= max_daily_loss * ev.entry.equity * 10)

\* The same cap on the sum of pnl_points that _record_intraday_pnl keeps.
DailyLossCapOnPoints ==
  (mode = "intraday" /\ EntryEmitted /\ ev.entry.equity > 0) =>
    ~(daily_pnl < 0 /\ (0 - daily_pnl) * 100 >= max_daily_loss * ev.entry.equity * 10)

----------------------------------------------------------------------------
\* C30 as stated: in intraday mode a refresh of the AI bias (a step of the
\* loop that gives _ai_bias_updated the current time) that follows an
\* earlier refresh comes more than AI_BIAS_INTERVAL = 1800 s after it,
\* whatever loop iterations, session changes and daily resets lie between.
\* _ai_bias_updated holds the time of the earlier refresh until the step
\* itself: only the loop iteration writes it.
C30_RefreshSpacing ==
  [][(mode = "intraday" /\ ai_bias_updated # 0 /\ ai_bias_updated' # ai_bias_updated /\ ai_bias_updated' = now')
       => SecondsBetween(ai_bias_updated, now') > AI_BIAS_INTERVAL]_vars

----------------------------------------------------------------------------
\* The engine in front of a market whose price is a state: every get_quote
\* of a step returns the last price of the symbol (0 when the service is
\* not ready), and the price moves between the steps.  The scheduler thread
\* keeps running: its loop, its cycle, its monitor tick and the end of its
\* wait are taken when they stay possible.
WatchStarts == {At(14, 50)}

Quoted == [s \in Symbols |-> IF svc_ready THEN {last_price[s]} ELSE {0}]

InitWatch ==
  /\ mode \in {"swing", "intraday"} /\ now \in WatchStarts /\ EngineConstructed
  /\ ThreadsStarted /\ ServiceStarted /\ CodecIdle /\ OrdersConstructed /\ PersistConstructed /\ QuietCalls
  /\ last_price \in [Symbols -> Prices]

\* The exchange quotes another price.
PriceMove ==
  /\ \E s \in Symbols, p \in Prices : p # last_price[s] /\ last_price' = [last_price EXCEPT ![s] = p]
  /\ ev' = NoEvent
  /\ UNCHANGED <<mode, now, elapsed, svc_ready, broker, positions, daily_pnl, daily_loss_count, pause_until, last_trade_date, ai_bias, ai_bias_updated, was_trading, pc, todo, gate_time, n_exits, pause_deadline>>

\* The wait between two cycles is over.  With managed positions the wait is
\* the for loop over total_ticks monitor ticks: it ends after a tick.
WaitOver == EndWait /\ (pc = "monitor" => ev.kind = "monitor")

\* The steps of the trading loop around the cycle and the monitor ticks.
LoopWatch ==
  \/ LoopSwing /\ UNCHANGED rest
  \/ LoopIntraday /\ UNCHANGED rest
  \/ WaitOver /\ UNCHANGED rest

\* The cycle and the monitor tick in front of the market.
CycleWatch == AnalyzeAndTradeAt(MaxExits, Quoted) /\ UNCHANGED rest
MonitorWatch == MonitorStopLevelsAt(MaxExits, Quoted) /\ UNCHANGED rest

\* The same two steps as the variables todo and ev show them: the cycle
\* takes the next contract off its list, the monitor tick leaves its event.
\* Among the steps of NextWatch only CycleWatch changes todo in this way
\* and only MonitorWatch leaves an event of kind "monitor".
CycleTurn == pc = "cycle" /\ todo # <<>> /\ todo' = Tail(todo)
MonitorTicks ==
  {IF ~IsTradingHours(now) \/ ~svc_ready THEN StartAcc
   ELSE MonitorAll(StartAcc, mode, DOMAIN positions, svc_ready, [s \in Symbols |-> last_price[s]], statuses,
                   close_before_market_close /\ IsNearMarketClose(now), now) :
   statuses \in [Symbols -> OrderStatuses(svc_ready)]}
MonitorEvents ==
  {EventOf("monitor", a) : a \in {b \in MonitorTicks : mode = "intraday" => n_exits + ExitsOf(b) <= MaxExits}}
MonitorTurn == pc = "monitor" /\ \E e \in MonitorEvents : ev' = e
\* ENABLED <<MonitorTurn>>_ev as a state predicate.
MonitorCanTurn == pc = "monitor" /\ \E e \in MonitorEvents : e # ev
\* WF_ev(MonitorTurn), written with that state predicate.
FairMonitor == []<>(~MonitorCanTurn) \/ []<><<MonitorTurn>>_ev

NextWatch ==
  \/ LoopWatch
  \/ CycleWatch
  \/ MonitorWatch
  \/ Tick /\ UNCHANGED rest
  \/ BrokerUpdate /\ UNCHANGED rest
  \/ ServiceChange /\ UNCHANGED rest
  \/ PriceMove /\ UNCHANGED restButMarket

SpecWatch == InitWatch /\ [][NextWatch]_vars /\ WF_vars(LoopWatch) /\ WF_todo(CycleTurn) /\ FairMonitor

\* The broker leg on the side of the managed position has volume.
LegLive(s) ==
  LET pos == PositionInfo(svc_ready, broker[s])
  IN IF positions[s].direction = "LONG" THEN pos.long_volume > 0 ELSE pos.short_volume > 0

\* Inside a session with the service ready, s is managed, its leg has
\* volume and the price is at or beyond its stop-loss or its take-profit
\* (and, in intraday mode, the behaviour has a close left to record).
AtExitLevel(s) ==
  /\ IsTradingHours(now) /\ svc_ready
  /\ Has(positions, s) /\ LegLive(s)
  /\ (StopHit(positions[s], last_price[s]) \/ TargetHit(positions[s], last_price[s]))
  /\ (mode = "intraday" => n_exits < MaxExits)

CloseOrdered(s) == \E o \in ev.orders : o.symbol = s /\ o.offset = "CLOSE"

\* C29: a managed position whose broker leg has volume and whose price
\* sits at or beyond the stop-loss or the take-profit, inside a session
\* with the service ready, does not stay so for ever: as long as the clock,
\* the price, the broker and the service leave the situation alone the
\* scheduler ends it, and it ends it only with a close order for the
\* position.
C29_ExitLevelLeadsToClose ==
  /\ \A s \in Symbols : []<>(~AtExitLevel(s))
  /\ [][\A s \in Symbols :
          (AtExitLevel(s) /\ ~AtExitLevel(s)' /\ UNCHANGED <<now, last_price, broker, svc_ready>>) => CloseOrdered(s)']_vars

\* A monitor tick closed a position at its stop-loss at the quoted price.
C29_MonitorClosedAtStop ==
  \E s \in Symbols :
    /\ ev.kind = "monitor" /\ CloseOrdered(s)
    /\ \E i \in DOMAIN ev.decisions :
         ev.decisions[i].symbol = s /\ ev.decisions[i].signal = "STOP_LOSS" /\ ev.decisions[i].price = last_price[s]

----------------------------------------------------------------------------
\* The local 5-min signal (AutoTrader._calc_intraday_signal).

\* Python floats are IEEE-754 doubles.  The scores are sums of the doubles
\* nearest 0.25, 0.15, 0.10 and 0.05, each addition rounded to the nearest
\* double, ties to even; they are compared with the double nearest 0.55.
FloatBase == 268435456
F_0 == Float(0, 0)
F_0_25 == Float(134217728, 0)
F_0_15 == Float(80530636, 214748364)
F_0_10 == Float(53687091, 53687092)
F_0_05 == Float(26843545, 161061274)
F_0_55 == Float(295279001, 161061280)
F_1 == Float(536870912, 0)

\* The spacing of the doubles of the binade x lies in, in units of 2^-57.
Ulp(x) ==
  IF x.hi >= 536870912 THEN 32
  ELSE IF x.hi >= 268435456 THEN 16
  ELSE IF x.hi >= 134217728 THEN 8
  ELSE IF x.hi >= 67108864 THEN 4
  ELSE IF x.hi >= 33554432 THEN 2
  ELSE 1

\* The exact sum of two doubles.
FSum(a, b) ==
  LET lo == a.lo + b.lo IN Float(a.hi + b.hi + lo \div FloatBase, lo % FloatBase)

\* Round to the nearest double, ties to the even one.
RoundEven(x) ==
  LET u == Ulp(x)
      r == x.lo % u
      q == x.lo \div u
      up == 2 * r > u \/ (2 * r = u /\ q % 2 = 1)
      lo == IF up THEN x.lo - r + u ELSE x.lo - r
  IN Float(x.hi + lo \div FloatBase, lo % FloatBase)

\* float + float, float >= float, min(a, b).
FAdd(a, b) == RoundEven(FSum(a, b))
FGe(a, b) == a.hi > b.hi \/ (a.hi = b.hi /\ a.lo >= b.lo)
FMin(a, b) == IF FGe(a, b) THEN b ELSE a

\* The hundredth nearest a double.
Hundredths(x) == ((x.hi \div 512) * 100 + 524288) \div 1048576

\* score += w if the factor holds.
Plus(score, factor, w) == IF factor THEN FAdd(score, w) ELSE score

\* The shared factors of lines 1308-1332.  Volumes and open interest are
\* whole numbers: cur_vol > cur_vol_ma * 1.2 and oi_now > oi_prev * 1.005
\* are compared after multiplying both sides.
Factors(i) ==
  [bull_ma |-> i.cur_ma5 > i.cur_ma10 /\ i.cur_ma10 > i.cur_ma20,
   bear_ma |-> i.cur_ma5 < i.cur_ma10 /\ i.cur_ma10 < i.cur_ma20,
   rsi_bull |-> (i.prev_rsi < 35 /\ i.cur_rsi > 35) \/ i.cur_rsi < 30,
   rsi_bear |-> (i.prev_rsi > 65 /\ i.cur_rsi < 65) \/ i.cur_rsi > 70,
   macd_golden |-> i.prev_gap <= 0 /\ i.cur_gap > 0,
   macd_death |-> i.prev_gap >= 0 /\ i.cur_gap < 0,
   kdj_bull |-> (i.prev_kd <= 0 /\ i.cur_k > i.cur_d) \/ 3 * i.cur_k - 2 * i.cur_d < 0,
   kdj_bear |-> (i.prev_kd >= 0 /\ i.cur_k < i.cur_d) \/ 3 * i.cur_k - 2 * i.cur_d > 100,
   vol_confirm |-> IF i.cur_vol_ma > 0 THEN 10 * i.cur_vol > 12 * i.cur_vol_ma ELSE FALSE,
   breakout |-> i.cur_close > i.prev_high,
   breakdown |-> i.cur_close < i.prev_low,
   oi_increasing |-> i.oi_prev > 0 /\ 1000 * i.oi_now > 1005 * i.oi_prev]

\* The seven additions of a score, in the order of the code.
Score(ma, macd, rsi, kdj, vol, oi, brk) ==
  Plus(Plus(Plus(Plus(Plus(Plus(Plus(F_0, ma, F_0_25), macd, F_0_25), rsi, F_0_15), kdj, F_0_10), vol, F_0_10), oi, F_0_10), brk, F_0_05)

\* _calc_intraday_signal from the factors on: the BUY score and its RSI
\* filter, which returns HOLD at once, then the SELL score and its filter.
CalcIntradaySignal(i) ==
  LET f == Factors(i)
      buy_score == Score(f.bull_ma, f.macd_golden, f.rsi_bull, f.kdj_bull, f.vol_confirm, f.oi_increasing, f.breakout)
      sell_score == Score(f.bear_ma, f.macd_death, f.rsi_bear, f.kdj_bear, f.vol_confirm, f.oi_increasing, f.breakdown)
      mid_rsi == 40 <= i.cur_rsi /\ i.cur_rsi <= 60
  IN IF ~i.ready THEN [signal |-> "HOLD", strength |-> F_0]
     ELSE IF FGe(buy_score, F_0_55)
     THEN IF mid_rsi /\ ~f.macd_golden /\ ~f.kdj_bull
          THEN [signal |-> "HOLD", strength |-> F_0]
          ELSE [signal |-> "BUY", strength |-> FMin(buy_score, F_1)]
     ELSE IF FGe(sell_score, F_0_55)
     THEN IF mid_rsi /\ ~f.macd_death /\ ~f.kdj_bear
          THEN [signal |-> "HOLD", strength |-> F_0]
          ELSE [signal |-> "SELL", strength |-> FMin(sell_score, F_1)]
     ELSE [signal |-> "HOLD", strength |-> F_0]

\* The indicator values the signal is computed for.
MaValues == {<<3, 2, 1>>, <<1, 2, 3>>, <<2, 2, 2>>}
RsiValues == {30, 50, 70} \X {25, 38, 50, 62, 75}
MacdValues == {-1, 1} \X {-1, 1}
KdjValues == {<<pk, kd[1], kd[2]>> : pk \in {-1, 1}, kd \in {<<90, 80>>, <<50, 40>>, <<10, 20>>, <<50, 60>>}}
VolValues == {<<100, 100>>, <<130, 100>>}
OiValues == {<<1000, 1000>>, <<1000, 1010>>}
CloseValues == {<<24440, 24400, 24360>>, <<24380, 24400, 24360>>, <<24340, 24400, 24360>>}

InitSignal ==
  /\ EngineParked /\ ThreadsConstructed /\ ServiceStarted /\ CodecIdle /\ OrdersConstructed /\ PersistConstructed
  /\ last_call = NoContractCall /\ FeedIdle /\ realized_pnl = 0 /\ last_price = [s \in Symbols |-> 0] /\ SizingIdle /\ NothingSeen /\ ChannelsHeld
  /\ \E ready \in BOOLEAN, ma \in MaValues, rsi \in RsiValues, macd \in MacdValues, kdj \in KdjValues,
        vol \in VolValues, oi \in OiValues, close \in CloseValues :
       indicators = Indicators(ready, ma, rsi, macd, kdj, vol, oi, close)
  /\ intraday_signal = NoSignal

\* One call of _calc_intraday_signal.
CalcSignal ==
  /\ intraday_signal = NoSignal
  /\ intraday_signal' = CalcIntradaySignal(indicators)
  /\ UNCHANGED indicators

NextSignal == CalcSignal /\ UNCHANGED <<evars, tvars, svars, cvars, ovars, pvars, kvars, fvars, gvars, wvars, zvars, hvars, qvars>>

SpecSignal == InitSignal /\ [][NextSignal]_vars

\* The weighted sum of the factors that hold, in hundredths.
Weighted(ma, macd, rsi, kdj, vol, oi, brk) ==
  LET w(factor, h) == IF factor THEN h ELSE 0 IN
  w(ma, 25) + w(macd, 25) + w(rsi, 15) + w(kdj, 10) + w(vol, 10) + w(oi, 10) + w(brk, 5)

\* The signal the rule "BUY if ..., else SELL if ..., else HOLD" gives.
RuleSignal(i) ==
  LET f == Factors(i)
      buy_score == Weighted(f.bull_ma, f.macd_golden, f.rsi_bull, f.kdj_bull, f.vol_confirm, f.oi_increasing, f.breakout)
      sell_score == Weighted(f.bear_ma, f.macd_death, f.rsi_bear, f.kdj_bear, f.vol_confirm, f.oi_increasing, f.breakdown)
      mid_rsi == 40 <= i.cur_rsi /\ i.cur_rsi <= 60
  IN IF buy_score >= INTRADAY_SIGNAL_THRESHOLD /\ ~(mid_rsi /\ ~f.macd_golden /\ ~f.kdj_bull)
     THEN LocalSignal("BUY", buy_score)
     ELSE IF sell_score >= INTRADAY_SIGNAL_THRESHOLD /\ ~(mid_rsi /\ ~f.macd_death /\ ~f.kdj_bear)
     THEN LocalSignal("SELL", sell_score)
     ELSE LocalSignal("HOLD", 0)

\* The signal computed, its strength to the nearest hundredth.
Computed == LocalSignal(intraday_signal.signal, Hundredths(intraday_signal.strength))
SignalComputed == intraday_signal # NoSignal /\ indicators.ready

\* C31: for every combination of the factors and of the RSI value, the local
\* signal is (BUY, buy_score) if buy_score >= 0.55 and the RSI filter of the
\* BUY side does not reject, else (SELL, sell_score) if sell_score >= 0.55
\* and the RSI filter of the SELL side does not reject, else (HOLD, 0), the
\* score being the weighted sum of the factors that hold.
C31_LocalSignalRule == SignalComputed => Computed = RuleSignal(indicators)

\* The two ways the computed signal leaves the rule: a weighted sum of
\* exactly 0.55 that the float additions leave below the threshold, and a
\* BUY score rejected by its RSI filter while the SELL side qualifies.
SumBelowThreshold ==
  LET f == Factors(indicators) IN
  /\ Weighted(f.bull_ma, f.macd_golden, f.rsi_bull, f.kdj_bull, f.vol_confirm, f.oi_increasing, f.breakout) = INTRADAY_SIGNAL_THRESHOLD
  /\ ~FGe(Score(f.bull_ma, f.macd_golden, f.rsi_bull, f.kdj_bull, f.vol_confirm, f.oi_increasing, f.breakout), F_0_55)
BuyRejectedSellQualifies ==
  /\ RuleSignal(indicators).signal = "SELL"
  /\ LET f == Factors(indicators) IN
       Weighted(f.bull_ma, f.macd_golden, f.rsi_bull, f.kdj_bull, f.vol_confirm, f.oi_increasing, f.breakout) >= 60
\* Outside those two cases the computed signal is the rule's.
LocalSignalRuleElsewhere ==
  SignalComputed =>
    \/ Computed = RuleSignal(indicators)
    \/ SumBelowThreshold
    \/ BuyRejectedSellQualifies
    \/ LET f == Factors(indicators) IN
         /\ Weighted(f.bear_ma, f.macd_death, f.rsi_bear, f.kdj_bear, f.vol_confirm, f.oi_increasing, f.breakdown) = INTRADAY_SIGNAL_THRESHOLD
         /\ ~FGe(Score(f.bear_ma, f.macd_death, f.rsi_bear, f.kdj_bear, f.vol_confirm, f.oi_increasing, f.breakdown), F_0_55)

----------------------------------------------------------------------------
\* The trailing stop along a price path.

\* Whole trailing steps between the entry price and the extreme price the
\* position has recorded.
StepsReached(ps, md) ==
  LET step100 == GetEffectiveParams(md).trail_step * ps.atr
      run == IF ps.direction = "LONG" THEN ps.highest_since_entry - ps.entry_price
             ELSE ps.entry_price - ps.lowest_since_entry
  IN IF step100 > 0 THEN (run * 100) \div step100 ELSE 0

\* The stop is at least k moves beyond the initial stop, k the steps reached.
StopFollows(ps, md) ==
  LET p == GetEffectiveParams(md)
      k == StepsReached(ps, md)
  IN IF ps.direction = "LONG"
     THEN 100 * ps.stop_loss >= 100 * ps.entry_price - p.sl_mult * ps.atr + k * p.trail_move * ps.atr
     ELSE 100 * ps.stop_loss <= 100 * ps.entry_price + p.sl_mult * ps.atr - k * p.trail_move * ps.atr

\* C32: whatever the size of the price updates, once the extreme price since
\* entry has reached entry + k * trail_step * ATR (LONG; entry - ... for
\* SHORT), stop_loss is at least k * trail_move * ATR beyond the initial
\* stop.
C32_StopFollowsEveryPath ==
  \A s \in DOMAIN positions : StopFollows(positions[s], mode)

----------------------------------------------------------------------------
\* The size of an entry (AutoTrader._calc_dynamic_lots).

SizingCaps == {1, 3}
SizingAccounts == {Account(FALSE, 0, 0), Account(TRUE, 0, 0), Account(TRUE, 1000, 50), Account(TRUE, 20000, 50), Account(TRUE, 100000, 50)}
SizingVolMultiples == {0, 5, 10}
SizingAtrs == {0, 20, 80}

InitSizing ==
  /\ mode \in {"swing", "intraday"} /\ now = At(21, 0) /\ EngineConstructed
  /\ ThreadsConstructed /\ ServiceStarted /\ CodecIdle /\ OrdersConstructed /\ PersistConstructed
  /\ last_call = NoContractCall /\ FeedIdle /\ realized_pnl = 0 /\ last_price = [s \in Symbols |-> 0] /\ SignalIdle /\ NothingSeen /\ ChannelsHeld
  /\ \E cap \in SizingCaps, ready \in BOOLEAN, acct \in SizingAccounts, vol_mult \in SizingVolMultiples, atr \in SizingAtrs :
       sizing = Sizing(cap, ready, acct, vol_mult, atr, 0)

\* One call of _calc_dynamic_lots.
CalcLots ==
  /\ sizing.lots = 0 /\ sizing # NoSizing
  /\ sizing' = [sizing EXCEPT !.lots = CalcDynamicLotsOf(sizing.max_lots, mode, sizing.ready, sizing.acct, sizing.vol_mult, sizing.atr)]

NextSizing == CalcLots /\ UNCHANGED <<evars, tvars, svars, cvars, ovars, pvars, kvars, fvars, gvars, wvars, ivars, hvars, qvars>>

SpecSizing == InitSizing /\ [][NextSizing]_vars

\* The size was computed with equity and volume_multiple available.
SizedOnEquity ==
  /\ sizing.lots > 0
  /\ sizing.ready /\ sizing.acct.ok /\ sizing.acct.balance > 0 /\ sizing.vol_mult > 0

\* lots * (ATR * sl_mult * volume_multiple) <= risk_pct * equity, both sides
\* multiplied by 1000.
LossWithinCap ==
  LET p == GetEffectiveParams(mode) IN
  sizing.lots * sizing.atr * p.sl_mult * sizing.vol_mult <= 10 * p.risk_pct * sizing.acct.balance

\* C33: for every entry whose size is computed while equity and
\* volume_multiple are available, the loss at the stop does not exceed the
\* per-trade risk cap: lots * (ATR * sl_mult * volume_multiple) <=
\* risk_pct * equity.
C33_LossAtStopWithinCap == SizedOnEquity => LossWithinCap

\* The cap is kept where it allows one lot at least.
OneLotAffordable ==
  LET p == GetEffectiveParams(mode) IN
  sizing.atr * p.sl_mult * sizing.vol_mult <= 10 * p.risk_pct * sizing.acct.balance
LossWithinCapWhenAffordable == SizedOnEquity /\ OneLotAffordable => LossWithinCap

----------------------------------------------------------------------------
\* The stop held for a position the broker keeps open.

HasVolume(bp) == bp.long_volume > 0 \/ bp.short_volume > 0

\* The observer follows the step: it forgets the stop when the broker
\* position changes or is flat, takes the stop of the managed position when
\* there is one, and keeps the last one otherwise.
TrackStop ==
  /\ held_stop' = [s \in Symbols |->
       IF broker'[s] # broker[s] \/ ~HasVolume(broker'[s]) THEN 0
       ELSE IF Has(positions', s) THEN positions'[s].stop_loss
       ELSE held_stop[s]]
  /\ UNCHANGED <<counted, requested>>

NextHold ==
  \/ LoopSwing /\ TrackStop /\ UNCHANGED restButSeen
  \/ AnalyzeAndTrade(MaxExits) /\ TrackStop /\ UNCHANGED restButSeen
  \/ MonitorStopLevels(MaxExits) /\ TrackStop /\ UNCHANGED restButSeen
  \/ EndWait /\ TrackStop /\ UNCHANGED restButSeen
  \/ Tick /\ TrackStop /\ UNCHANGED restButSeen
  \/ BrokerUpdate /\ TrackStop /\ UNCHANGED restButSeen
  \/ ServiceChange /\ TrackStop /\ UNCHANGED restButSeen

InitHold == Init /\ mode = "swing"

SpecHold == InitHold /\ [][NextHold]_vars

\* The stop of ps is not on the losing side of the level stop.
NotLooser(ps, stop) ==
  IF ps.direction = "LONG" THEN ps.stop_loss >= stop ELSE ps.stop_loss <= stop

\* C34: for a broker position that the broker keeps open continuously, the
\* stop-loss the engine holds for the symbol never loosens, also across a
\* drop of the managed position followed by its restoration.
C34_StopNeverLoosens ==
  [][\A s \in Symbols :
       (broker'[s] = broker[s] /\ HasVolume(broker[s]) /\ held_stop[s] # 0 /\ Has(positions', s))
         => NotLooser(positions'[s], held_stop[s])]_vars

\* Between a drop and a restoration excepted, the stop never loosens.
StopNeverLoosensWhileManaged ==
  [][\A s \in Symbols :
       (broker'[s] = broker[s] /\ HasVolume(broker[s]) /\ Has(positions, s) /\ Has(positions', s))
         => NotLooser(positions'[s], positions[s].stop_loss)]_vars

----------------------------------------------------------------------------
\* The stop against the entry price in intraday mode.

\* The stop of ps is strictly on the losing side of its entry price.
OnLosingSide(ps) ==
  IF ps.direction = "LONG" THEN ps.stop_loss < ps.entry_price ELSE ps.stop_loss > ps.entry_price

----------------------------------------------------------------------------
\* The opening orders of a symbol the broker shows no volume for.

MaxRequested == 2

\* The lots of the opening order for s that the step had accepted by
\* place_order (one contract's analysis emits one order at most).
OpenedLots(e, s) ==
  LET os == {o \in e.orders : o.symbol = s /\ o.offset = "OPEN" /\ o.status = "SUBMITTED"}
  IN IF os = {} THEN 0 ELSE (CHOOSE o \in os : TRUE).volume

\* The observer follows the step: the lots requested for a symbol add up
\* until the broker reports volume for it.
TrackRequested ==
  /\ requested' = [s \in Symbols |->
       IF HasVolume(broker'[s]) THEN 0 ELSE requested[s] + OpenedLots(ev', s)]
  /\ \A s \in Symbols : requested'[s] <= MaxRequested
  /\ UNCHANGED <<held_stop, counted>>

NextPending ==
  \/ LoopSwing /\ TrackRequested /\ UNCHANGED restButSeen
  \/ AnalyzeAndTrade(MaxExits) /\ TrackRequested /\ UNCHANGED restButSeen
  \/ MonitorStopLevels(MaxExits) /\ TrackRequested /\ UNCHANGED restButSeen
  \/ EndWait /\ TrackRequested /\ UNCHANGED restButSeen
  \/ Tick /\ TrackRequested /\ UNCHANGED restButSeen
  \/ BrokerUpdate /\ TrackRequested /\ UNCHANGED restButSeen
  \/ ServiceChange /\ TrackRequested /\ UNCHANGED restButSeen

SpecPending == InitHold /\ [][NextPending]_vars

\* C36: after an entry order for a symbol has been SUBMITTED, no second
\* entry order is emitted for it while the broker still reports zero long
\* and short volume, so the exposure requested for one symbol never
\* exceeds max_lots.
C36_OneEntryWhilePending == \A s \in Symbols : requested[s] <= max_lots

----------------------------------------------------------------------------
\* A cycle over several contracts.

BookContracts == <<"M2509", "C2605", "RB2510", "AG2512">>
BookSymbols == {BookContracts[i] : i \in DOMAIN BookContracts}
BookQuotes == [s \in BookSymbols |-> {24400}]

\* After start() with four contracts, in session, the broker flat.
InitBook ==
  /\ mode = "swing" /\ now = At(21, 0)
  /\ elapsed = 0 /\ svc_ready = TRUE /\ broker = [s \in BookSymbols |-> BrokerFlat]
  /\ positions = NoPositions
  /\ daily_pnl = 0 /\ daily_loss_count = 0 /\ pause_until = 0 /\ last_trade_date = -1
  /\ ai_bias = NoPositions /\ ai_bias_updated = 0 /\ was_trading = TRUE /\ pc = "loop"
  /\ todo = <<>> /\ gate_time = 0 /\ n_exits = 0 /\ pause_deadline = 0 /\ ev = NoEvent
  /\ ThreadsStarted /\ ServiceStarted /\ CodecIdle /\ OrdersConstructed /\ PersistConstructed /\ CallsIdle

\* One iteration of AutoTrader._trading_loop_swing up to the call of
\* _analyze_and_trade for the first of the four contracts.
LoopBook ==
  /\ pc = "loop"
  /\ was_trading' = IsTradingHours(now)
  /\ IF CycleGate(now, svc_ready)
     THEN pc' = "cycle" /\ todo' = BookContracts /\ gate_time' = now
     ELSE pc' = AfterCycle(positions) /\ UNCHANGED <<todo, gate_time>>
  /\ ev' = NoEvent
  /\ UNCHANGED <<mode, now, elapsed, svc_ready, broker, positions, daily_pnl, daily_loss_count, pause_until, last_trade_date, ai_bias, ai_bias_updated, n_exits, pause_deadline>>

NextBook ==
  \/ LoopBook /\ UNCHANGED rest
  \/ AnalyzeAndTradeAt(MaxExits, BookQuotes) /\ UNCHANGED rest
  \/ EndWait /\ UNCHANGED rest

SpecBook == InitBook /\ [][NextBook]_vars

\* C37: the number of managed positions never exceeds config.max_positions.
C37_ManagedWithinMaxPositions == Cardinality(DOMAIN positions) <= max_positions

\* No opening order is emitted when max_positions positions are managed.
NoEntryAtMaxPositions ==
  [][Cardinality(DOMAIN positions) >= max_positions => \A o \in ev'.orders : o.offset # "OPEN"]_vars

----------------------------------------------------------------------------
\* Requests handed to insert_order.

\* The ids of the requests _process_orders hands to insert_order in a step:
\* those that get their result in it.
Inserted == (DOMAIN order_results') \ (DOMAIN order_results)

\* C38: each request enqueued by place_order is passed to insert_order at
\* most once (a request that has its result is not in the queue again), and
\* a request for which place_order has returned TIMEOUT is never passed to
\* insert_order afterwards.
C38_NoInsertAfterTimeout ==
  [][/\ \A k \in 1..Len(pending_orders') : pending_orders'[k].id \notin DOMAIN order_results'
     /\ ret.status = "TIMEOUT" => ret.id \notin Inserted]_vars

\* Each request is passed to insert_order at most once.
InsertedAtMostOnce ==
  [][/\ \A k \in 1..Len(pending_orders') : pending_orders'[k].id \notin DOMAIN order_results'
     /\ \A id \in DOMAIN order_results : id \in DOMAIN order_results' /\ order_results'[id] = order_results[id]]_vars

----------------------------------------------------------------------------
\* What the intraday P&L counts against what the broker closed.

\* The close decisions for s the step has recorded; in intraday mode each
\* goes through _record_intraday_pnl.
ClosesRecorded(e, s) ==
  Cardinality({i \in DOMAIN e.decisions :
                 e.decisions[i].symbol = s /\ e.decisions[i].action \in {"CLOSE_LONG", "CLOSE_SHORT"}})

\* The observer follows the step: the closes recorded for a symbol add up
\* until the broker position of the symbol changes.
TrackCounted ==
  /\ counted' = [s \in Symbols |->
       IF broker'[s] # broker[s] THEN 0 ELSE counted[s] + ClosesRecorded(ev', s)]
  /\ UNCHANGED <<held_stop, requested>>

NextCounted ==
  \/ LoopIntraday /\ StreakEnv' /\ TrackCounted /\ UNCHANGED restButSeen
  \/ AnalyzeAndTrade(MaxStreakExits) /\ StreakEnv' /\ TrackCounted /\ UNCHANGED restButSeen
  \/ MonitorStopLevels(MaxStreakExits) /\ StreakEnv' /\ TrackCounted /\ UNCHANGED restButSeen
  \/ EndWait /\ TrackCounted /\ UNCHANGED restButSeen
  \/ Tick /\ TrackCounted /\ UNCHANGED restButSeen
  \/ BrokerUpdate /\ StreakEnv' /\ TrackCounted /\ UNCHANGED restButSeen

SpecCounted == InitStreak /\ [][NextCounted]_vars

\* C39: in intraday mode the daily realized P&L and the consecutive-loss
\* counter are updated exactly once per position actually closed at the
\* broker: a step whose close order returned ERROR changes neither of them,
\* and one unchanged broker position is counted once at most.
C39_CountedOncePerClose ==
  /\ [][(\E o \in ev'.orders : o.offset = "CLOSE" /\ o.status = "ERROR")
          => (daily_pnl' = daily_pnl /\ daily_loss_count' = daily_loss_count)]_vars
  /\ [](\A s \in Symbols : counted[s] <= 1)

\* The two halves, each violated on its own.
ErrorCloseNotCounted ==
  [][(\E o \in ev'.orders : o.offset = "CLOSE" /\ o.status = "ERROR")
       => (daily_pnl' = daily_pnl /\ daily_loss_count' = daily_loss_count)]_vars
CountedOnceAtMost == \A s \in Symbols : counted[s] <= 1

----------------------------------------------------------------------------
\* The first cycles after a restart with a persisted position.

\* What positions.json holds for a position of the broker: the managed
\* position as created, or with its stop trailed once.
Persisted(md, bp) ==
  LET p == GetEffectiveParams(md)
      action == IF bp.long_volume > 0 THEN "BUY" ELSE "SELL"
      lots == IF bp.long_volume > 0 THEN bp.long_volume ELSE bp.short_volume
      avg == IF bp.long_volume > 0 THEN bp.long_avg_price ELSE bp.short_avg_price
      ps == NewPositionState(md, action, lots, avg, 80, At(20, 55))
  IN {ps, IF action = "BUY" THEN TrailLong(ps, avg + 40, p.trail_step, p.trail_move)
          ELSE TrailShort(ps, avg - 40, p.trail_step, p.trail_move)}

\* After _load_state and start(): the managed position is back, the broker
\* holds the position or has closed it meanwhile, and the new service holds
\* no position object yet.
InitRestart ==
  /\ mode \in {"swing", "intraday"} /\ now = At(21, 0)
  /\ elapsed = 0 /\ svc_ready = TRUE
  /\ \E bp \in BrokerStates \ {BrokerFlat}, gone \in BOOLEAN :
       /\ broker = [s \in Symbols |-> IF gone THEN BrokerFlat ELSE bp]
       /\ \E ps \in Persisted(mode, bp) : positions = [s \in Symbols |-> ps]
  /\ daily_pnl = 0 /\ daily_loss_count = 0 /\ pause_until = 0 /\ last_trade_date = -1
  /\ ai_bias = NoPositions /\ ai_bias_updated = 0 /\ was_trading = TRUE /\ pc = "loop"
  /\ todo = <<>> /\ gate_time = 0 /\ n_exits = 0 /\ pause_deadline = 0 /\ ev = NoEvent
  /\ ThreadsStarted /\ ServiceStarted /\ CodecIdle /\ OrdersConstructed /\ PersistConstructed
  /\ QuietButChannels /\ last_price = [s \in Symbols |-> 0]
  /\ position_channel = [s \in Symbols |-> "none"]

\* TqDataService.get_position_info of a ready service: a symbol without
\* position object is queued and the caller sleeps 0.5 s, during which the
\* worker's _process_pending has run or not; without object the answer has
\* every volume 0.
ChannelAfterWait(ch, processed) == IF ch = "held" \/ processed THEN "held" ELSE "pending"
GetPositionInfo(ch, bp) == IF ch = "held" THEN bp ELSE BrokerFlat

\* _analyze_and_trade for the next contract of the cycle, reading the
\* position through get_position_info.
AnalyzeRestart ==
  /\ pc = "cycle" /\ todo # <<>>
  /\ \E processed \in BOOLEAN :
       LET s == Head(todo)
           ch == ChannelAfterWait(position_channel[s], processed)
       IN /\ position_channel' = [position_channel EXCEPT ![s] = ch]
          /\ AnalyzeAndTradeOn(MaxExits, AnyQuote,
                               [t \in Symbols |-> IF t = s THEN GetPositionInfo(ch, broker[t]) ELSE broker[t]])

\* The worker's _process_pending: every queued symbol gets its position
\* object.
ProcessPending ==
  /\ \E s \in Symbols : position_channel[s] = "pending"
  /\ position_channel' = [s \in Symbols |-> IF position_channel[s] = "pending" THEN "held" ELSE position_channel[s]]
  /\ UNCHANGED evars

NextRestart ==
  \/ LoopSwing /\ UNCHANGED rest
  \/ LoopIntraday /\ UNCHANGED rest
  \/ AnalyzeRestart /\ UNCHANGED restButChannels
  \/ ProcessPending /\ UNCHANGED restButChannels
  \/ EndWait /\ UNCHANGED rest

SpecRestart == InitRestart /\ [][NextRestart]_vars

\* The step dropped the managed position of s without a close decision.
DroppedAsStale(e, s) == e.kind = "analyze" /\ s \in e.removed /\ ClosesRecorded(e, s) = 0
DropsAsStale(s) == s \in DOMAIN positions /\ s \notin DOMAIN positions' /\ DroppedAsStale(ev', s)

\* C40: a managed position is dropped as stale only when the broker's
\* position data for the symbol really shows zero long and zero short
\* volume, not when the position information is merely unavailable.
C40_StaleOnlyWhenFlat ==
  [][\A s \in Symbols : DropsAsStale(s) => ~HasVolume(broker[s])]_vars

\* With the position object held, a stale drop means a flat broker.
StaleOnlyWhenFlatOnceHeld ==
  [][\A s \in Symbols : (DropsAsStale(s) /\ position_channel'[s] = "held") => ~HasVolume(broker[s])]_vars

====
